---- MODULE Spec2Model ----
(***************************************************************************)
(* WannabeGit: the repository state machine (HEAD, branch refs, commit     *)
(* store, staging index, working tree) and the command handlers that       *)
(* change it, translated from src/wannabegit.                              *)
(***************************************************************************)
EXTENDS Integers, Sequences, FiniteSets, TLC

(***************************************************************************)
(* Bounds of the model.                                                    *)
(***************************************************************************)
\* commit ids that may ever be created
MaxCommits == 2
\* wall-clock seconds a commit may be stamped with: 0..MaxTime
MaxTime == 0
\* the commit ids that may be created where file-system calls fail, or where
\* branches are given ill-formed names
FewCommits == 1
\* the commit ids under which the walks along the parents are checked
ManyCommits == 3
\* the iterations a walk along parent links is followed for
MaxWalk == 4

(***************************************************************************)
(* Value domains.                                                          *)
(***************************************************************************)
\* working-tree paths (regular files, relative to the repository root)
Paths == {"a.txt", "b.txt", "important.log", "build/keep.txt", "build/other.txt"}
\* working-tree directories
Dirs == {"build"}
\* the paths IgnoreManager.is_ignored is asked about
IgnorePaths == Paths \cup Dirs \cup {"debug.log", "keep.pyc"}
\* byte contents a working-tree file may have
Contents == {"v1", "v2"}
\* a path that is not on disk
Absent == "<absent>"
\* commit messages
Messages == {"m"}
\* second-resolution timestamps, core.format_timestamp
Timestamps == 0..MaxTime
\* Python None / the empty string: both falsy, both tested with `not x`
None == ""
\* branch names given to the commands
Names == {"main", "dev", "", "a/b", "a b", "a\tb"}
\* branch names, one of them ending with a space
PaddedNames == {"main", "dev", "dev "}

\* the characters of a string (Python str iteration and indexing)
Chars(s) ==
    CASE s = "main" -> <<"m", "a", "i", "n">>
      [] s = "dev" -> <<"d", "e", "v">>
      [] s = "" -> <<>>
      [] s = "a/b" -> <<"a", "/", "b">>
      [] s = "a b" -> <<"a", " ", "b">>
      [] s = "a\tb" -> <<"a", "\t", "b">>
      [] s = "dev " -> <<"d", "e", "v", " ">>
      [] s = "a.txt" -> <<"a", ".", "t", "x", "t">>
      [] s = "b.txt" -> <<"b", ".", "t", "x", "t">>
      [] s = ".wannabegit" -> <<".", "w", "a", "n", "n", "a", "b", "e", "g", "i", "t">>
      [] s = ".wannabegit/*" -> <<".", "w", "a", "n", "n", "a", "b", "e", "g", "i", "t", "/", "*">>
      [] s = "*.pyc" -> <<"*", ".", "p", "y", "c">>
      [] s = "__pycache__" -> <<"_", "_", "p", "y", "c", "a", "c", "h", "e", "_", "_">>
      [] s = "__pycache__/*" -> <<"_", "_", "p", "y", "c", "a", "c", "h", "e", "_", "_", "/", "*">>
      [] s = "*.pyo" -> <<"*", ".", "p", "y", "o">>
      [] s = "*.pyd" -> <<"*", ".", "p", "y", "d">>
      [] s = ".DS_Store" -> <<".", "D", "S", "_", "S", "t", "o", "r", "e">>
      [] s = "Thumbs.db" -> <<"T", "h", "u", "m", "b", "s", ".", "d", "b">>
      [] s = "*.swp" -> <<"*", ".", "s", "w", "p">>
      [] s = "*.swo" -> <<"*", ".", "s", "w", "o">>
      [] s = "*~" -> <<"*", "~">>
      [] s = ".*.swp" -> <<".", "*", ".", "s", "w", "p">>
      [] s = "# WannabeGit ignore file" -> <<"#", " ", "W", "a", "n", "n", "a", "b", "e", "G", "i", "t", " ", "i", "g", "n", "o", "r", "e", " ", "f", "i", "l", "e">>
      [] s = "# Patterns follow gitignore syntax" -> <<"#", " ", "P", "a", "t", "t", "e", "r", "n", "s", " ", "f", "o", "l", "l", "o", "w", " ", "g", "i", "t", "i", "g", "n", "o", "r", "e", " ", "s", "y", "n", "t", "a", "x">>
      [] s = "# Python" -> <<"#", " ", "P", "y", "t", "h", "o", "n">>
      [] s = "__pycache__/" -> <<"_", "_", "p", "y", "c", "a", "c", "h", "e", "_", "_", "/">>
      [] s = ".Python" -> <<".", "P", "y", "t", "h", "o", "n">>
      [] s = "*.so" -> <<"*", ".", "s", "o">>
      [] s = "# Virtual environments" -> <<"#", " ", "V", "i", "r", "t", "u", "a", "l", " ", "e", "n", "v", "i", "r", "o", "n", "m", "e", "n", "t", "s">>
      [] s = "venv/" -> <<"v", "e", "n", "v", "/">>
      [] s = "env/" -> <<"e", "n", "v", "/">>
      [] s = "ENV/" -> <<"E", "N", "V", "/">>
      [] s = "# IDEs" -> <<"#", " ", "I", "D", "E", "s">>
      [] s = ".vscode/" -> <<".", "v", "s", "c", "o", "d", "e", "/">>
      [] s = ".idea/" -> <<".", "i", "d", "e", "a", "/">>
      [] s = "# OS" -> <<"#", " ", "O", "S">>
      [] s = "# Build artifacts" -> <<"#", " ", "B", "u", "i", "l", "d", " ", "a", "r", "t", "i", "f", "a", "c", "t", "s">>
      [] s = "dist/" -> <<"d", "i", "s", "t", "/">>
      [] s = "build/" -> <<"b", "u", "i", "l", "d", "/">>
      [] s = "*.egg-info/" -> <<"*", ".", "e", "g", "g", "-", "i", "n", "f", "o", "/">>
      [] s = "important.log" -> <<"i", "m", "p", "o", "r", "t", "a", "n", "t", ".", "l", "o", "g">>
      [] s = "build/keep.txt" -> <<"b", "u", "i", "l", "d", "/", "k", "e", "e", "p", ".", "t", "x", "t">>
      [] s = "build/other.txt" -> <<"b", "u", "i", "l", "d", "/", "o", "t", "h", "e", "r", ".", "t", "x", "t">>
      [] s = "debug.log" -> <<"d", "e", "b", "u", "g", ".", "l", "o", "g">>
      [] s = "keep.pyc" -> <<"k", "e", "e", "p", ".", "p", "y", "c">>
      [] s = "build" -> <<"b", "u", "i", "l", "d">>
      [] s = "*.log" -> <<"*", ".", "l", "o", "g">>
      [] s = "!important.log" -> <<"!", "i", "m", "p", "o", "r", "t", "a", "n", "t", ".", "l", "o", "g">>
      [] s = "!build/keep.txt" -> <<"!", "b", "u", "i", "l", "d", "/", "k", "e", "e", "p", ".", "t", "x", "t">>
      [] s = "!*.pyc" -> <<"!", "*", ".", "p", "y", "c">>
      [] s = "# Add your custom patterns below" -> <<"#", " ", "A", "d", "d", " ", "y", "o", "u", "r", " ", "c", "u", "s", "t", "o", "m", " ", "p", "a", "t", "t", "e", "r", "n", "s", " ", "b", "e", "l", "o", "w">>

\* Python `ch in name`; a commit id is eight hexadecimal digits, none of which
\* is a character the commands look for
Contains(name, ch) ==
    name \in Names \cup PaddedNames
        /\ \E i \in DOMAIN Chars(name) : Chars(name)[i] = ch

\* the characters str.isspace() holds of, among those of the names
Whitespace == {" ", "\t"}

\* Python str.strip at the end of a line: the whitespace after the last other
\* character is dropped
RECURSIVE rstrip(_)
rstrip(chars) ==
    IF chars # <<>> /\ chars[Len(chars)] \in Whitespace
    THEN rstrip(SubSeq(chars, 1, Len(chars) - 1))
    ELSE chars

\* the branch name read back from a HEAD file written as
\* "ref: refs/heads/{branch}\n": content.strip() drops the newline and the
\* whitespace the name ends with
read_branch(branch) ==
    IF branch \in Names \cup PaddedNames
    THEN CHOOSE name \in Names \cup PaddedNames :
             Chars(name) = rstrip(Chars(branch))
    ELSE branch

Restrict(f, S) == [x \in S |-> f[x]]

(***************************************************************************)
(* ignore.py                                                               *)
(***************************************************************************)
\* DEFAULT_IGNORE_PATTERNS
DEFAULT_IGNORE_PATTERNS ==
    <<".wannabegit",
      ".wannabegit/*",
      "*.pyc",
      "__pycache__",
      "__pycache__/*",
      "*.pyo",
      "*.pyd",
      ".DS_Store",
      "Thumbs.db",
      "*.swp",
      "*.swo",
      "*~",
      ".*.swp">>

\* the lines of .wannabegitignore as create_default_ignore_file writes it
IgnoreFileLines ==
    <<"# WannabeGit ignore file",
      "# Patterns follow gitignore syntax",
      "",
      "# Python",
      "*.pyc",
      "__pycache__/",
      "*.pyo",
      "*.pyd",
      ".Python",
      "*.so",
      "",
      "# Virtual environments",
      "venv/",
      "env/",
      "ENV/",
      "",
      "# IDEs",
      ".vscode/",
      ".idea/",
      "*.swp",
      "*.swo",
      "*~",
      "",
      "# OS",
      ".DS_Store",
      "Thumbs.db",
      "",
      "# Build artifacts",
      "dist/",
      "build/",
      "*.egg-info/",
      "",
      "# Add your custom patterns below">>

\* a .wannabegitignore with the given lines, and the absence of the file
IgnoreFile(lines) == [exists |-> TRUE, lines |-> lines]
NoIgnoreFile == [exists |-> FALSE, lines |-> <<>>]

\* the .wannabegitignore files of the model: the one cmd_init creates, and
\* files the user writes
IgnoreFiles ==
    {IgnoreFile(IgnoreFileLines),
     IgnoreFile(<<"*.log">>),
     IgnoreFile(<<"*.log", "!important.log">>),
     IgnoreFile(<<"build/", "!build/keep.txt">>),
     IgnoreFile(<<"!*.pyc">>)}

\* fnmatch.fnmatch on character sequences: * any run, ? any one character
RECURSIVE fnmatch(_, _)
fnmatch(name, pat) ==
    IF pat = <<>> THEN name = <<>>
    ELSE IF Head(pat) = "*"
         THEN fnmatch(name, Tail(pat)) \/ (name # <<>> /\ fnmatch(Tail(name), pat))
         ELSE /\ name # <<>>
              /\ (Head(pat) = "?" \/ Head(pat) = Head(name))
              /\ fnmatch(Tail(name), Tail(pat))

\* os.path.basename: what follows the last "/"
RECURSIVE basename(_)
basename(path) ==
    IF \E i \in DOMAIN path : path[i] = "/"
    THEN basename(Tail(path))
    ELSE path

\* IgnorePattern.__init__: the flags and the bare pattern of one line
IgnorePattern(line) ==
    LET negation == line # <<>> /\ Head(line) = "!"
        p1 == IF negation THEN Tail(line) ELSE line
        directory_only == p1 # <<>> /\ p1[Len(p1)] = "/"
        p2 == IF directory_only THEN SubSeq(p1, 1, Len(p1) - 1) ELSE p1
        is_absolute == p2 # <<>> /\ Head(p2) = "/"
        p3 == IF is_absolute THEN Tail(p2) ELSE p2
    IN [negation |-> negation, directory_only |-> directory_only,
        is_absolute |-> is_absolute, pattern |-> p3]

\* IgnorePattern.matches
matches(p, path, is_dir) ==
    IF p.directory_only /\ ~is_dir THEN FALSE
    ELSE IF p.is_absolute THEN fnmatch(path, p.pattern)
    ELSE IF ~(\E i \in DOMAIN p.pattern : p.pattern[i] = "/")
         THEN fnmatch(basename(path), p.pattern)
         ELSE \/ fnmatch(path, p.pattern)
              \/ fnmatch(path, <<"*", "*", "/">> \o p.pattern)

\* IgnoreManager._load_patterns: the defaults, then the file's lines that are
\* neither empty nor comments
load_patterns(file) ==
    LET keep(line) == line # "" /\ Head(Chars(line)) # "#"
        user == IF file.exists THEN SelectSeq(file.lines, keep) ELSE <<>>
        all == DEFAULT_IGNORE_PATTERNS \o user
    IN [i \in DOMAIN all |-> IgnorePattern(Chars(all[i]))]

\* the loop with the first matching pattern deciding
ignored_first(patterns, n, path, is_dir) ==
    IF n = 0 THEN FALSE
    ELSE LET matching == {i \in 1..n : matches(patterns[i], path, is_dir)}
         IN /\ matching # {}
            /\ \E i \in matching :
                  /\ \A j \in matching : i <= j
                  /\ ~patterns[i].negation

\* the loop of IgnoreManager.is_ignored over the first n patterns
RECURSIVE ignored_after(_, _, _, _)
ignored_after(patterns, n, path, is_dir) ==
    IF n = 0 THEN FALSE
    ELSE LET ignored == ignored_after(patterns, n - 1, path, is_dir)
         IN IF matches(patterns[n], path, is_dir)
            THEN ~patterns[n].negation
            ELSE ignored

\* IgnoreManager.is_ignored under each .wannabegitignore, for each path, as a
\* file and as a directory
IgnoreVerdict ==
    [file \in IgnoreFiles \cup {NoIgnoreFile} |->
        [path \in IgnorePaths |-> [is_dir \in BOOLEAN |->
            ignored_after(load_patterns(file), Len(load_patterns(file)),
                          Chars(path), is_dir)]]]

VARIABLES
    initialized,  \* .wannabegit exists
    disk,         \* working tree: Paths -> Contents \cup {Absent}
    HEAD,         \* .wannabegit/HEAD as written: [ref, val]
    refs,         \* .wannabegit/refs/heads: name -> commit id ("" = empty file)
    commits,      \* .wannabegit/commits: id -> [meta, snap]
    index,        \* .wannabegit/index.json: [tracked_files, staged_files]
    last,         \* the last command run and its result
    orig,         \* id -> what the first commit created under that id recorded
    ignore_file,  \* .wannabegitignore: [exists, lines]
    procs         \* the invocations that run at the same time: where each is

state == <<initialized, disk, HEAD, refs, commits, index>>
vars == <<initialized, disk, HEAD, refs, commits, index, last, orig, ignore_file,
          procs>>

(***************************************************************************)
(* core.py                                                                 *)
(***************************************************************************)
\* Repository.get_current_branch: the branch HEAD names, None when detached
get_current_branch ==
    IF ~initialized THEN None
    ELSE IF HEAD.ref THEN read_branch(HEAD.val) ELSE None

\* the names that, joined to a directory, name the directory itself
DirNames == {"", "."}

\* Repository.branch_exists: (refs_dir / name).exists(); refs_dir / "" is refs_dir
branch_exists(name) == name \in DirNames \/ name \in DOMAIN refs

\* Repository.list_branches: the regular files of refs/heads
list_branches == DOMAIN refs

\* Repository.get_head: the commit id HEAD resolves to, None when there is none
get_head ==
    IF ~initialized THEN None
    ELSE IF HEAD.ref
         THEN IF read_branch(HEAD.val) \in DOMAIN refs
              THEN refs[read_branch(HEAD.val)]
              ELSE None
         ELSE HEAD.val

\* Repository.set_head: the HEAD file after the call
set_head_HEAD(commit_id, branch) ==
    IF branch # None THEN [ref |-> TRUE, val |-> branch]
    ELSE [ref |-> FALSE, val |-> commit_id]

\* set_head writing the HEAD file only
set_head_refs_unwritten(commit_id, branch) == refs

\* set_head writing the commit id to every branch file
set_head_refs_everywhere(commit_id, branch) ==
    IF branch # None THEN [b \in DOMAIN refs \cup {branch} |-> commit_id]
    ELSE refs

\* Repository.set_head: refs/heads after the call
set_head_refs(commit_id, branch) ==
    IF branch # None THEN (branch :> commit_id) @@ refs
    ELSE refs

\* generate_commit_id: sha1 of "message|timestamp|parent-or-root", first 8 hex
\* digits; the digest is taken to be collision free, so the id stands for its input
generate_commit_id(message, timestamp, parent) ==
    "#" \o message \o "|" \o ToString(timestamp) \o "|"
        \o (IF parent # None THEN parent ELSE "root")

\* hash_file_content: sha1 of the bytes, taken to be collision free
hash_file_content(content) == "sha1:" \o content

\* get_file_hash: the hash of the file, "" when it cannot be opened
get_file_hash(file_path) ==
    IF disk[file_path] = Absent THEN "" ELSE hash_file_content(disk[file_path])

\* os.path.dirname on character sequences: what precedes the last "/"
RECURSIVE dirname(_)
dirname(path) ==
    IF path = <<>> THEN <<>>
    ELSE IF path[Len(path)] = "/" THEN SubSeq(path, 1, Len(path) - 1)
    ELSE dirname(SubSeq(path, 1, Len(path) - 1))

\* os.path.isdir: a directory exists while a file lies in it; the paths of
\* Paths are regular files
isdir(path) ==
    /\ path \in Dirs
    /\ \E f \in Paths : disk[f] # Absent /\ dirname(Chars(f)) = Chars(path)

\* IgnoreManager.is_ignored
is_ignored(path) == IgnoreVerdict[ignore_file][path][isdir(path)]

(***************************************************************************)
(* The record of the last command: its name, exit status, the error it     *)
(* reported, its arguments (arg, arg2, flag: see each command), and how    *)
(* many per-file errors it counted.                                        *)
(***************************************************************************)
Result(op, rc, err, arg, arg2, flag, errors) ==
    [op |-> op, rc |-> rc, err |-> err, arg |-> arg, arg2 |-> arg2,
     flag |-> flag, errors |-> errors, create |-> FALSE]

\* a command that fails before it writes anything
Refuse(op, err, arg, arg2, flag) ==
    /\ last' = Result(op, 1, err, arg, arg2, flag, 0)
    /\ UNCHANGED <<initialized, disk, HEAD, refs, commits, index, orig>>

\* Repository.ensure_exists raising RepositoryError
NotARepository(op, arg, arg2, flag) ==
    /\ ~initialized
    /\ Refuse(op, "NotARepository", arg, arg2, flag)

EmptyIndex == [tracked_files |-> {}, staged_files |-> <<>>]

\* the invocations of the program that may run at the same time
Procs == {"p", "q"}

\* an invocation that is not running; of a running one: the command and its
\* argument, the statement it is at, and its local variables index, commit_id,
\* timestamp, parent_commit, current_branch and files_committed
Idle ==
    [pc |-> "idle", op |-> "none", arg |-> "", rc |-> 0, index |-> EmptyIndex,
     id |-> None, timestamp |-> 0, parent |-> None, branch |-> None,
     files |-> {}]

Init ==
    /\ initialized = FALSE
    /\ disk \in [Paths -> Contents \cup {Absent}]
    /\ HEAD = [ref |-> FALSE, val |-> None]
    /\ refs = <<>>
    /\ commits = <<>>
    /\ index = EmptyIndex
    /\ last = Result("none", 0, "", "", "", FALSE, 0)
    /\ orig = <<>>
    /\ ignore_file = NoIgnoreFile
    /\ procs = [p \in Procs |-> Idle]

(***************************************************************************)
(* The user's own changes to the working tree, between commands.           *)
(***************************************************************************)
WriteFile(file, content) ==
    /\ disk[file] # content
    /\ disk' = [disk EXCEPT ![file] = content]
    /\ last' = Result("edit", 0, "", file, "", FALSE, 0)
    /\ UNCHANGED <<initialized, HEAD, refs, commits, index, orig>>

\* the user writing .wannabegitignore
WriteIgnoreFile(file) ==
    /\ ignore_file # file
    /\ ignore_file' = file
    /\ last' = Result("edit", 0, "", ".wannabegitignore", "", FALSE, 0)
    /\ UNCHANGED <<initialized, disk, HEAD, refs, commits, index, orig, procs>>

RemoveFile(file) ==
    /\ disk[file] # Absent
    /\ disk' = [disk EXCEPT ![file] = Absent]
    /\ last' = Result("edit", 0, "", file, "", FALSE, 0)
    /\ UNCHANGED <<initialized, HEAD, refs, commits, index, orig>>

(***************************************************************************)
(* commands/init.py                                                        *)
(***************************************************************************)
\* create_default_ignore_file: .wannabegitignore after the call
create_default_ignore_file ==
    IF ignore_file.exists THEN ignore_file ELSE IgnoreFile(IgnoreFileLines)

cmd_init ==
    IF initialized
    THEN /\ last' = Result("init", 0, "", "", "", FALSE, 0)
         /\ UNCHANGED <<initialized, disk, HEAD, refs, commits, index, orig,
                        ignore_file>>
    ELSE /\ initialized' = TRUE
         /\ ignore_file' = create_default_ignore_file
         /\ index' = EmptyIndex
         /\ HEAD' = [ref |-> TRUE, val |-> "main"]
         /\ refs' = ("main" :> "")
         /\ commits' = <<>>
         /\ last' = Result("init", 0, "", "", "", FALSE, 0)
         /\ UNCHANGED <<disk, orig>>

(***************************************************************************)
(* commands/add.py                                                         *)
(***************************************************************************)
\* os.path.exists of a path of the working tree, a file or a directory
exists(path) ==
    IF path \in Paths THEN disk[path] # Absent ELSE isdir(path)

\* expand_file_patterns for one path without wildcards: the files of a
\* directory, a regular file, or a path that does not exist
expand_file_patterns(file_path) ==
    IF isdir(file_path)
    THEN {f \in Paths : disk[f] # Absent /\ dirname(Chars(f)) = Chars(file_path)}
    ELSE {file_path}

\* the loop of cmd_add over files_to_add: the files it stages
add_staged(files_to_add) ==
    {f \in files_to_add : ~is_ignored(f) /\ exists(f) /\ ~isdir(f)}

\* the loop of cmd_add over files_to_add: the files it reports as missing
add_errors(files_to_add) ==
    {f \in files_to_add : ~is_ignored(f) /\ ~exists(f)}

\* the index entry cmd_add writes for a file; the file is already in
\* tracked_files when the status is chosen
stage_entry(file, tracked) ==
    [hash |-> get_file_hash(file),
     status |-> IF file \notin tracked THEN "added" ELSE "modified"]

\* cmd_add(file_path, add_all); write_fails: write_json(INDEX_FILE) raises
cmd_add(file_path, add_all, write_fails) ==
    \/ NotARepository("add", file_path, "", add_all)
    \/ /\ initialized
       /\ LET files_to_add ==
                  IF add_all
                  THEN {f \in index.tracked_files : disk[f] # Absent}
                  ELSE expand_file_patterns(file_path)
              added == add_staged(files_to_add)
              errors == add_errors(files_to_add)
              tracked == index.tracked_files \cup added
              staged == [f \in added |-> stage_entry(f, tracked)]
                            @@ index.staged_files
          IN IF write_fails
             THEN Refuse("add", "IOFailure", file_path, "", add_all)
             ELSE /\ index' = [tracked_files |-> tracked, staged_files |-> staged]
                  /\ last' = Result("add", IF errors # {} THEN 1 ELSE 0,
                                    IF errors # {} THEN "FileNotFound" ELSE "",
                                    file_path, "", add_all, Cardinality(errors))
                  /\ UNCHANGED <<initialized, disk, HEAD, refs, commits, orig>>

\* an unstage that stops tracking the file as well
cmd_unstage_untracking(file_path) ==
    /\ initialized
    /\ IF file_path \in DOMAIN index.staged_files
       THEN /\ index' = [tracked_files |-> index.tracked_files \ {file_path},
                         staged_files |-> Restrict(index.staged_files,
                             DOMAIN index.staged_files \ {file_path})]
            /\ last' = Result("unstage", 0, "", file_path, "", FALSE, 0)
            /\ UNCHANGED <<initialized, disk, HEAD, refs, commits, orig>>
       ELSE Refuse("unstage", "NotStaged", file_path, "", FALSE)

\* cmd_unstage(file_path)
cmd_unstage(file_path) ==
    \/ NotARepository("unstage", file_path, "", FALSE)
    \/ /\ initialized
       /\ IF file_path \in DOMAIN index.staged_files
          THEN /\ index' = [index EXCEPT !.staged_files =
                               Restrict(@, DOMAIN @ \ {file_path})]
               /\ last' = Result("unstage", 0, "", file_path, "", FALSE, 0)
               /\ UNCHANGED <<initialized, disk, HEAD, refs, commits, orig>>
          ELSE Refuse("unstage", "NotStaged", file_path, "", FALSE)

(***************************************************************************)
(* commands/commit.py                                                      *)
(***************************************************************************)
\* the steps of cmd_commit's try block at which an OSError may be raised
CommitFailures == {"none", "snapshot", "meta", "head", "ref", "index"}

\* commit_all staging every tracked file, on disk or not
commit_staged_unchecked(commit_all) ==
    IF commit_all
    THEN [f \in index.tracked_files |->
             [hash |-> get_file_hash(f), status |-> "modified"]]
         @@ index.staged_files
    ELSE index.staged_files

\* the index written without clearing staged_files
committed_index_uncleared == index

\* the index cmd_commit writes after set_head: staged_files cleared; the
\* entries commit_all staged were never written to index.json
committed_index == [index EXCEPT !.staged_files = <<>>]

\* the staging area cmd_commit works on: with commit_all every tracked file
\* that exists is staged in memory first
commit_staged(commit_all) ==
    IF commit_all
    THEN [f \in {g \in index.tracked_files : disk[g] # Absent} |->
             [hash |-> get_file_hash(f), status |-> "modified"]]
         @@ index.staged_files
    ELSE index.staged_files

\* files_committed with every staged path appended, on disk or not
files_committed_unchecked(staged_files) == DOMAIN staged_files

\* files_committed: the staged paths that exist in the working tree
files_committed(staged_files) == {f \in DOMAIN staged_files : disk[f] # Absent}

\* a commit directory whose meta.json records no parent
commit_dir_parentless(commit_id, message, timestamp, parent, branch, files) ==
    [meta |-> [id |-> commit_id, message |-> message, timestamp |-> timestamp,
               parent |-> None,
               branch |-> IF branch # None THEN branch ELSE "detached",
               files |-> files],
     snap |-> [f \in Paths |->
                  IF f \in files THEN disk[f]
                  ELSE IF commit_id \in DOMAIN commits
                       THEN commits[commit_id].snap[f]
                       ELSE Absent]]

\* a commit directory whose copies are the contents that were staged, not the
\* contents the files have when the commit is made
commit_dir_as_staged(commit_id, message, timestamp, parent, branch, files) ==
    [meta |-> [id |-> commit_id, message |-> message, timestamp |-> timestamp,
               parent |-> parent,
               branch |-> IF branch # None THEN branch ELSE "detached",
               files |-> files],
     snap |-> [f \in Paths |->
                  IF f \in files
                  THEN IF /\ f \in DOMAIN index.staged_files
                          /\ \E c \in Contents :
                                 hash_file_content(c) = index.staged_files[f].hash
                       THEN CHOOSE c \in Contents :
                                hash_file_content(c) = index.staged_files[f].hash
                       ELSE disk[f]
                  ELSE IF commit_id \in DOMAIN commits
                       THEN commits[commit_id].snap[f]
                       ELSE Absent]]

\* the commit directory after the copy loop and write_json(meta.json);
\* an existing directory of the same id is reused (makedirs exist_ok=True)
commit_dir(commit_id, message, timestamp, parent, branch, files) ==
    [meta |-> [id |-> commit_id, message |-> message, timestamp |-> timestamp,
               parent |-> parent,
               branch |-> IF branch # None THEN branch ELSE "detached",
               files |-> files],
     snap |-> [f \in Paths |->
                  IF f \in files THEN disk[f]
                  ELSE IF commit_id \in DOMAIN commits
                       THEN commits[commit_id].snap[f]
                       ELSE Absent]]

\* shutil.rmtree(commit_path) in the except block
rmtree(commit_id) == Restrict(commits, DOMAIN commits \ {commit_id})

\* what the first commit attempted under an id recorded, or was recording
\* when it failed: its files and their contents
remember(commit_id, dir) ==
    IF commit_id \in DOMAIN orig THEN orig
    ELSE (commit_id :> [files |-> dir.meta.files, snap |-> dir.snap]) @@ orig

\* cmd_commit(message, commit_all) at wall-clock second timestamp;
\* fail: the step of the try block that raises OSError; errors counts the file
\* whose copy raised it
cmd_commit(message, commit_all, timestamp, fail) ==
    \/ NotARepository("commit", message, "", commit_all)
    \/ /\ initialized
       /\ LET staged_files == commit_staged(commit_all)
              parent_commit == get_head
              current_branch == get_current_branch
              commit_id == generate_commit_id(message, timestamp, parent_commit)
              files == files_committed(staged_files)
              dir == commit_dir(commit_id, message, timestamp, parent_commit,
                                current_branch, files)
          IN IF DOMAIN staged_files = {}
             THEN Refuse("commit", "NothingToCommit", message, "", commit_all)
             ELSE /\ fail = "ref" => current_branch # None
                  /\ CASE fail = "none" ->
                            /\ commits' = (commit_id :> dir) @@ commits
                            /\ HEAD' = set_head_HEAD(commit_id, current_branch)
                            /\ refs' = set_head_refs(commit_id, current_branch)
                            /\ index' = committed_index
                            /\ orig' = remember(commit_id, dir)
                            /\ last' = Result("commit", 0, "", message, commit_id,
                                              commit_all, 0)
                       [] fail \in {"snapshot", "meta", "head", "ref"} ->
                            /\ commits' = rmtree(commit_id)
                            /\ last' = Result("commit", 1, "IOFailure", message,
                                              commit_id, commit_all,
                                              IF fail = "snapshot" THEN 1 ELSE 0)
                            /\ orig' = remember(commit_id, dir)
                            /\ UNCHANGED <<HEAD, refs, index>>
                       [] fail = "index" ->
                            /\ commits' = rmtree(commit_id)
                            /\ HEAD' = set_head_HEAD(commit_id, current_branch)
                            /\ refs' = set_head_refs(commit_id, current_branch)
                            /\ last' = Result("commit", 1, "IOFailure", message,
                                              commit_id, commit_all, 0)
                            /\ orig' = remember(commit_id, dir)
                            /\ UNCHANGED index
                  /\ UNCHANGED <<initialized, disk>>

(***************************************************************************)
(* commands/checkout.py                                                    *)
(***************************************************************************)
\* has_uncommitted_changes
has_uncommitted_changes ==
    LET head_commit == get_head
    IN IF head_commit = None THEN FALSE
       ELSE \E file \in index.tracked_files :
               \/ disk[file] = Absent
               \/ /\ head_commit \in DOMAIN commits
                  /\ commits[head_commit].snap[file] # Absent
                  /\ disk[file] # commits[head_commit].snap[file]

\* os.path.exists(os.path.join(COMMITS_DIR, commit_id))
commit_path_exists(commit_id) ==
    commit_id \in DOMAIN commits \/ commit_id \in DirNames

\* read_json(meta.json, {}).get("files", []): no files where there is no
\* meta.json
commit_files(commit_id) ==
    IF commit_id \in DOMAIN commits THEN commits[commit_id].meta.files ELSE {}

\* the files a restore loop copies from commit_id: those of meta.files whose
\* snapshot exists
restorable(commit_id) ==
    {f \in commit_files(commit_id) : commits[commit_id].snap[f] # Absent}

\* a restore loop that copies nothing
restored_nothing(commit_id, unwritable) == disk

\* the working tree after the restore loop; copying to a file in unwritable
\* raises IOError, which the loop reports and passes over
restored(commit_id, unwritable) ==
    [f \in Paths |->
        IF f \in restorable(commit_id) /\ f \notin unwritable
        THEN commits[commit_id].snap[f]
        ELSE disk[f]]

\* the number of files the restore loop failed to copy
restore_errors(commit_id, unwritable) ==
    Cardinality(restorable(commit_id) \cap unwritable)

\* the index written after a restore with the staging area left as it was
index_of_commit_staged(commit_id) ==
    [tracked_files |-> commit_files(commit_id),
     staged_files |-> index.staged_files]

\* the index written after a restore: tracked_files are the commit's files
index_of_commit(commit_id) ==
    [tracked_files |-> commit_files(commit_id), staged_files |-> <<>>]

\* cmd_checkout(target, create_branch, force)
cmd_checkout(target, create_branch, force, unwritable) ==
    \/ /\ ~initialized
       /\ last' = [Result("checkout", 1, "NotARepository", target, "", force, 0)
                      EXCEPT !.create = create_branch]
       /\ UNCHANGED <<initialized, disk, HEAD, refs, commits, index, orig>>
    \/ /\ initialized
       /\ LET head_commit == get_head
              created == create_branch
              refs1 == IF created THEN (target :> head_commit) @@ refs ELSE refs
              commit_id == IF target \in DOMAIN refs1 THEN refs1[target] ELSE target
              result(rc, err, id, errors) ==
                  [Result("checkout", rc, err, target, id, force, errors)
                      EXCEPT !.create = create_branch]
              refuse(err) ==
                  /\ last' = result(1, err, "", 0)
                  /\ UNCHANGED <<initialized, disk, HEAD, refs, commits, index,
                                 orig>>
          IN IF ~force /\ has_uncommitted_changes
             THEN refuse("UncommittedChangesPresent")
             ELSE IF create_branch /\ head_commit = None
             THEN refuse("NoCommits")
             ELSE IF create_branch /\ branch_exists(target)
             THEN refuse("BranchAlreadyExists")
             ELSE IF create_branch /\ Contains(target, "/")
             THEN refuse("IOFailure")
             ELSE IF target \in DirNames
             THEN refuse("IOFailure")
             ELSE IF target \in DOMAIN refs1 /\ commit_id = None
             THEN refuse("NoCommits")
             ELSE IF target \in DOMAIN refs1 /\ ~commit_path_exists(commit_id)
             THEN /\ refs' = refs1
                  /\ last' = result(1, "RestoreFailed", "", 0)
                  /\ UNCHANGED <<initialized, disk, HEAD, commits, index, orig>>
             ELSE IF target \in DOMAIN refs1 \/ target \in DOMAIN commits
             THEN /\ disk' = restored(commit_id, unwritable)
                  /\ HEAD' = IF target \in DOMAIN refs1
                             THEN set_head_HEAD(commit_id, target)
                             ELSE set_head_HEAD(target, None)
                  /\ refs' = IF target \in DOMAIN refs1
                             THEN (target :> commit_id) @@ refs1
                             ELSE refs1
                  /\ index' = index_of_commit(commit_id)
                  /\ last' = result(0, "", commit_id,
                                    restore_errors(commit_id, unwritable))
                  /\ UNCHANGED <<initialized, commits, orig>>
             ELSE refuse("NotFound")

(***************************************************************************)
(* commands/revert.py                                                      *)
(***************************************************************************)
\* a revert that rewrites history: the children of the commit are removed
cmd_revert_rewriting(commit_id, hard, answer, unwritable) ==
    \/ NotARepository("revert", commit_id, "", hard)
    \/ /\ initialized
       /\ LET has_staged == DOMAIN index.staged_files # {}
              current_branch == get_current_branch
          IN IF ~commit_path_exists(commit_id)
             THEN Refuse("revert", "CommitNotFound", commit_id, "", hard)
             ELSE IF has_staged /\ ~hard /\ answer # "y"
             THEN /\ last' = Result("revert", 0, "Cancelled", commit_id, "", hard, 0)
                  /\ UNCHANGED <<initialized, disk, HEAD, refs, commits, index, orig>>
             ELSE /\ disk' = restored(commit_id, unwritable)
                  /\ HEAD' = set_head_HEAD(commit_id, current_branch)
                  /\ refs' = set_head_refs(commit_id, current_branch)
                  /\ index' = [tracked_files |-> commit_files(commit_id),
                               staged_files |-> IF hard THEN <<>>
                                                ELSE index.staged_files]
                  /\ commits' = Restrict(commits,
                                    {id \in DOMAIN commits :
                                        commits[id].meta.parent # commit_id})
                  /\ last' = Result("revert", 0, "", commit_id, "", hard,
                                    restore_errors(commit_id, unwritable))
                  /\ UNCHANGED <<initialized, orig>>

\* cmd_revert(commit_id, hard); answer: what the user types at the prompt
\* shown when files are staged and hard is not set
cmd_revert(commit_id, hard, answer, unwritable) ==
    \/ NotARepository("revert", commit_id, "", hard)
    \/ /\ initialized
       /\ LET has_staged == DOMAIN index.staged_files # {}
              current_branch == get_current_branch
          IN IF ~commit_path_exists(commit_id)
             THEN Refuse("revert", "CommitNotFound", commit_id, "", hard)
             ELSE IF has_staged /\ ~hard /\ answer # "y"
             THEN /\ last' = Result("revert", 0, "Cancelled", commit_id, "", hard, 0)
                  /\ UNCHANGED <<initialized, disk, HEAD, refs, commits, index, orig>>
             ELSE /\ disk' = restored(commit_id, unwritable)
                  /\ HEAD' = set_head_HEAD(commit_id, current_branch)
                  /\ refs' = set_head_refs(commit_id, current_branch)
                  /\ index' = [tracked_files |-> commit_files(commit_id),
                               staged_files |-> IF hard THEN <<>>
                                                ELSE index.staged_files]
                  /\ last' = Result("revert", 0, "", commit_id, "", hard,
                                    restore_errors(commit_id, unwritable))
                  /\ UNCHANGED <<initialized, commits, orig>>

\* the reset modes given to cmd_reset
Modes == {"soft", "mixed", "hard", "keep"}

\* a reset whose soft mode clears the staging area, as mixed does
cmd_reset_soft_unstaging(mode) ==
    \/ NotARepository("reset", mode, "", FALSE)
    \/ /\ initialized
       /\ LET head_commit == get_head
              files == IF head_commit \in DOMAIN commits
                       THEN commits[head_commit].meta.files ELSE {}
          IN IF head_commit = None
             THEN Refuse("reset", "NoHead", mode, "", FALSE)
             ELSE CASE mode = "soft" ->
                         /\ index' = [index EXCEPT !.staged_files = <<>>]
                         /\ last' = Result("reset", 0, "", mode, "", FALSE, 0)
                         /\ UNCHANGED <<initialized, disk, HEAD, refs, commits, orig>>
                    [] mode = "mixed" ->
                         /\ index' = [index EXCEPT !.staged_files = <<>>]
                         /\ last' = Result("reset", 0, "", mode, "", FALSE, 0)
                         /\ UNCHANGED <<initialized, disk, HEAD, refs, commits, orig>>
                    [] mode = "hard" ->
                         /\ disk' = IF head_commit \in DOMAIN commits
                                    THEN restored(head_commit, {}) ELSE disk
                         /\ index' = [tracked_files |-> files, staged_files |-> <<>>]
                         /\ last' = Result("reset", 0, "", mode, "", FALSE, 0)
                         /\ UNCHANGED <<initialized, HEAD, refs, commits, orig>>
                    [] OTHER -> Refuse("reset", "UnknownMode", mode, "", FALSE)

\* cmd_reset(mode)
cmd_reset(mode) ==
    \/ NotARepository("reset", mode, "", FALSE)
    \/ /\ initialized
       /\ LET head_commit == get_head
              files == IF head_commit \in DOMAIN commits
                       THEN commits[head_commit].meta.files ELSE {}
          IN IF head_commit = None
             THEN Refuse("reset", "NoHead", mode, "", FALSE)
             ELSE CASE mode = "soft" ->
                         /\ last' = Result("reset", 0, "", mode, "", FALSE, 0)
                         /\ UNCHANGED <<initialized, disk, HEAD, refs, commits,
                                        index, orig>>
                    [] mode = "mixed" ->
                         /\ index' = [index EXCEPT !.staged_files = <<>>]
                         /\ last' = Result("reset", 0, "", mode, "", FALSE, 0)
                         /\ UNCHANGED <<initialized, disk, HEAD, refs, commits, orig>>
                    [] mode = "hard" ->
                         /\ disk' = IF head_commit \in DOMAIN commits
                                    THEN restored(head_commit, {}) ELSE disk
                         /\ index' = [tracked_files |-> files, staged_files |-> <<>>]
                         /\ last' = Result("reset", 0, "", mode, "", FALSE, 0)
                         /\ UNCHANGED <<initialized, HEAD, refs, commits, orig>>
                    [] OTHER -> Refuse("reset", "UnknownMode", mode, "", FALSE)

(***************************************************************************)
(* commands/status.py                                                      *)
(***************************************************************************)
\* get_file_status taking a staged file as staged without hashing it again
get_file_status_stale(file_path, staged_files, head_commit) ==
    IF disk[file_path] = Absent
    THEN IF file_path \in DOMAIN staged_files THEN "staged_deleted" ELSE "deleted"
    ELSE IF file_path \in DOMAIN staged_files THEN "staged"
    ELSE IF /\ head_commit # None
            /\ head_commit \in DOMAIN commits
            /\ commits[head_commit].snap[file_path] # Absent
    THEN IF get_file_hash(file_path)
               # hash_file_content(commits[head_commit].snap[file_path])
         THEN "modified"
         ELSE "unchanged"
    ELSE "untracked"

\* get_file_status(file_path, staged_files, head_commit_path)
get_file_status(file_path, staged_files, head_commit) ==
    IF disk[file_path] = Absent
    THEN IF file_path \in DOMAIN staged_files THEN "staged_deleted" ELSE "deleted"
    ELSE IF file_path \in DOMAIN staged_files
    THEN IF get_file_hash(file_path) # staged_files[file_path].hash
         THEN "modified_after_staging"
         ELSE "staged"
    ELSE IF /\ head_commit # None
            /\ head_commit \in DOMAIN commits
            /\ commits[head_commit].snap[file_path] # Absent
    THEN IF get_file_hash(file_path)
               # hash_file_content(commits[head_commit].snap[file_path])
         THEN "modified"
         ELSE "unchanged"
    ELSE "untracked"

\* cmd_status: the status of each tracked file
tracked_status ==
    [file \in index.tracked_files |->
        get_file_status(file, index.staged_files, get_head)]

\* cmd_status: staged_changes
staged_changes ==
    {file \in index.tracked_files :
        tracked_status[file] \in {"staged", "modified_after_staging"}}

\* unstaged_changes without the files whose status is "modified"
unstaged_changes_after_staging ==
    {file \in index.tracked_files :
        get_file_status(file, index.staged_files, get_head)
            = "modified_after_staging"}

\* cmd_status: unstaged_changes
unstaged_changes ==
    {file \in index.tracked_files :
        tracked_status[file] \in {"modified", "modified_after_staging"}}

\* cmd_status: deleted_files
deleted_files ==
    {file \in index.tracked_files : tracked_status[file] = "deleted"}

\* os.walk with dirs[:] filtered: the files of the directories that are walked
\* into, those with no ignored directory above them
walked ==
    {file \in Paths :
        /\ disk[file] # Absent
        /\ \A d \in Dirs : dirname(Chars(file)) = Chars(d) => ~is_ignored(d)}

\* cmd_status: untracked_files (of the files of Paths; .wannabegitignore is a
\* file of the walk too)
untracked_files ==
    {file \in walked : ~is_ignored(file) /\ file \notin index.tracked_files}

\* cmd_status(short): it prints the four lists and changes nothing
cmd_status(short) ==
    \/ NotARepository("status", "", "", short)
    \/ /\ initialized
       /\ last' = Result("status", 0, "", "", "", short, 0)
       /\ UNCHANGED <<initialized, disk, HEAD, refs, commits, index, orig>>

(***************************************************************************)
(* commands/diff.py.  A diff is the set of the headers it prints: the file  *)
(* and whether it is shown as added, deleted or modified.                  *)
(***************************************************************************)
\* os.path.exists of the copy of a file in a commit directory
in_commit(commit_id, file) ==
    commit_id \in DOMAIN commits /\ commits[commit_id].snap[file] # Absent

\* diff_commits(commit1, commit2): over the files of either meta.json
diff_commits(commit1, commit2) ==
    LET all_files == commit_files(commit1) \cup commit_files(commit2)
    IN {[file |-> f, kind |-> "added"] :
            f \in {g \in all_files : ~in_commit(commit1, g)}}
       \cup {[file |-> f, kind |-> "deleted"] :
            f \in {g \in all_files : in_commit(commit1, g)
                                        /\ ~in_commit(commit2, g)}}
       \cup {[file |-> f, kind |-> "modified"] :
            f \in {g \in all_files :
                      /\ in_commit(commit1, g) /\ in_commit(commit2, g)
                      /\ commits[commit1].snap[g] # commits[commit2].snap[g]}}

\* diff_commit_working(commit_id): over the files of the commit's meta.json
diff_commit_working(commit_id) ==
    LET tracked_files == commit_files(commit_id)
    IN {[file |-> f, kind |-> "deleted"] :
            f \in {g \in tracked_files : disk[g] = Absent}}
       \cup {[file |-> f, kind |-> "modified"] :
            f \in {g \in tracked_files :
                      /\ disk[g] # Absent
                      /\ in_commit(commit_id, g)
                      /\ commits[commit_id].snap[g] # disk[g]}}

\* diff_cached(head_commit), and show_staged_files when there is no HEAD commit
diff_cached(head_commit) ==
    LET staged == DOMAIN index.staged_files
    IN IF head_commit = None
       THEN {[file |-> f, kind |-> "added"] : f \in staged}
       ELSE {[file |-> f, kind |-> "added"] :
                 f \in {g \in staged : ~in_commit(head_commit, g)}}
            \cup {[file |-> f, kind |-> "deleted"] :
                 f \in {g \in staged : in_commit(head_commit, g)
                                        /\ disk[g] = Absent}}
            \cup {[file |-> f, kind |-> "modified"] :
                 f \in {g \in staged :
                           /\ in_commit(head_commit, g) /\ disk[g] # Absent
                           /\ commits[head_commit].snap[g] # disk[g]}}

\* the commit that cmd_diff compares with the working tree; None when it
\* compares something else
diff_base(commit1, commit2, cached) ==
    IF cached \/ (commit1 # None /\ commit2 # None) THEN None
    ELSE IF commit1 # None THEN commit1 ELSE get_head

\* why cmd_diff(commit1, commit2, cached) returns 1, "" when it returns 0;
\* open() of a copy that is not in the commit directory raises
diff_failure(commit1, commit2, cached) ==
    LET base == diff_base(commit1, commit2, cached)
    IN IF cached THEN ""
       ELSE IF commit1 # None /\ commit2 # None
       THEN IF commit_path_exists(commit1) /\ commit_path_exists(commit2)
            THEN "" ELSE "CommitNotFound"
       ELSE IF base = None THEN ""
       ELSE IF ~commit_path_exists(base) THEN "CommitNotFound"
       ELSE IF \E f \in commit_files(base) :
                   disk[f] # Absent /\ ~in_commit(base, f)
       THEN "IOFailure"
       ELSE ""

\* what cmd_diff(commit1, commit2, cached) shows
diff_shown(commit1, commit2, cached) ==
    LET base == diff_base(commit1, commit2, cached)
    IN IF diff_failure(commit1, commit2, cached) # "" THEN {}
       ELSE IF cached THEN diff_cached(get_head)
       ELSE IF commit1 # None /\ commit2 # None
       THEN diff_commits(commit1, commit2)
       ELSE IF base = None THEN {}
       ELSE diff_commit_working(base)

\* cmd_diff(commit1, commit2, cached): it prints and changes nothing
cmd_diff(commit1, commit2, cached) ==
    \/ NotARepository("diff", commit1, commit2, cached)
    \/ /\ initialized
       /\ LET err == diff_failure(commit1, commit2, cached)
          IN last' = Result("diff", IF err # "" THEN 1 ELSE 0, err,
                            commit1, commit2, cached, 0)
       /\ UNCHANGED <<initialized, disk, HEAD, refs, commits, index, orig>>

(***************************************************************************)
(* The walks along parent links: commit.get_commit_tree,                   *)
(* graph.get_commit_chain, and the loop of history.cmd_history.  A walk    *)
(* is followed for fuel iterations; done tells that its loop has ended.    *)
(***************************************************************************)
\* a commit id that names no commit directory
Missing == "deadbeef"

\* the user, or another program, rewriting the parent of a meta.json
TamperParent(commit_id, parent) ==
    /\ commit_id \in DOMAIN commits
    /\ commits[commit_id].meta.parent # parent
    /\ commits' = [commits EXCEPT ![commit_id].meta.parent = parent]
    /\ last' = Result("edit", 0, "", commit_id, parent, FALSE, 0)
    /\ UNCHANGED <<initialized, disk, HEAD, refs, index, orig>>

\* the while loop of get_commit_tree without the visited set
RECURSIVE commit_tree_unvisited(_, _, _, _)
commit_tree_unvisited(current, visited, tree, fuel) ==
    IF current = None THEN [chain |-> tree, done |-> TRUE]
    ELSE IF fuel = 0 THEN [chain |-> tree, done |-> FALSE]
    ELSE IF current \notin DOMAIN commits THEN [chain |-> tree, done |-> TRUE]
    ELSE commit_tree_unvisited(commits[current].meta.parent, visited,
                               Append(tree, current), fuel - 1)

\* the while loop of get_commit_tree
RECURSIVE commit_tree_loop(_, _, _, _)
commit_tree_loop(current, visited, tree, fuel) ==
    IF current = None \/ current \in visited THEN [chain |-> tree, done |-> TRUE]
    ELSE IF fuel = 0 THEN [chain |-> tree, done |-> FALSE]
    ELSE IF current \notin DOMAIN commits THEN [chain |-> tree, done |-> TRUE]
    ELSE commit_tree_loop(commits[current].meta.parent, visited \cup {current},
                          Append(tree, current), fuel - 1)

\* get_commit_tree(commit_id)
get_commit_tree(commit_id) == commit_tree_loop(commit_id, {}, <<>>, MaxWalk)

\* build_commit_graph: commit id -> parent, of every commit directory
build_commit_graph == [id \in DOMAIN commits |-> commits[id].meta.parent]

\* the while loop of get_commit_chain
RECURSIVE commit_chain_loop(_, _, _, _, _)
commit_chain_loop(current, graph, visited, chain, fuel) ==
    IF current = None \/ current \notin DOMAIN graph \/ current \in visited
    THEN [chain |-> chain, done |-> TRUE]
    ELSE IF fuel = 0 THEN [chain |-> chain, done |-> FALSE]
    ELSE commit_chain_loop(graph[current], graph, visited \cup {current},
                           Append(chain, current), fuel - 1)

\* get_commit_chain(commit_id, graph)
get_commit_chain(commit_id, graph) ==
    commit_chain_loop(commit_id, graph, {}, <<>>, MaxWalk)

\* the while loop of cmd_history; limit 0 is no limit
RECURSIVE history_loop(_, _, _, _, _)
history_loop(current, visited, chain, limit, fuel) ==
    IF current = None \/ current \in visited THEN [chain |-> chain, done |-> TRUE]
    ELSE IF fuel = 0 THEN [chain |-> chain, done |-> FALSE]
    ELSE IF current \notin DOMAIN commits THEN [chain |-> chain, done |-> TRUE]
    ELSE IF limit # 0 /\ Len(chain) + 1 >= limit
    THEN [chain |-> Append(chain, current), done |-> TRUE]
    ELSE history_loop(commits[current].meta.parent, visited \cup {current},
                      Append(chain, current), limit, fuel - 1)

\* cmd_history: the commits it lists, from HEAD
history_commits(limit) == history_loop(get_head, {}, <<>>, limit, MaxWalk)

\* cmd_history(limit): it prints the chain and changes nothing
cmd_history(limit) ==
    \/ NotARepository("history", "", "", FALSE)
    \/ /\ initialized
       /\ last' = Result("history", 0, "", get_head, "", FALSE,
                         Len(history_commits(limit).chain))
       /\ UNCHANGED <<initialized, disk, HEAD, refs, commits, index, orig>>

\* cmd_graph(limit): the chain from HEAD when HEAD's commit is in the graph
cmd_graph(limit) ==
    \/ NotARepository("graph", "", "", FALSE)
    \/ /\ initialized
       /\ LET graph == build_commit_graph
              shown == IF get_head # None /\ get_head \in DOMAIN graph
                       THEN Len(get_commit_chain(get_head, graph).chain)
                       ELSE Cardinality(DOMAIN graph)
          IN last' = Result("graph", 0, "", get_head, "", FALSE,
                            IF limit # 0 /\ shown > limit THEN limit ELSE shown)
       /\ UNCHANGED <<initialized, disk, HEAD, refs, commits, index, orig>>

(***************************************************************************)
(* commands/branch.py                                                      *)
(***************************************************************************)
\* the name check of cmd_branch: not name or '/' in name or ' ' in name
invalid_branch_name(name) ==
    name = "" \/ Contains(name, "/") \/ Contains(name, " ")

\* cmd_branch(name); write_fails: branch_file.write_text raises IOError
cmd_branch(name, write_fails) ==
    \/ NotARepository("branch", name, "", FALSE)
    \/ /\ initialized
       /\ LET head_commit == get_head
          IN IF invalid_branch_name(name)
             THEN Refuse("branch", "InvalidBranchName", name, "", FALSE)
             ELSE IF branch_exists(name)
             THEN Refuse("branch", "BranchAlreadyExists", name, "", FALSE)
             ELSE IF head_commit = None
             THEN Refuse("branch", "NoCommits", name, "", FALSE)
             ELSE IF write_fails
             THEN Refuse("branch", "IOFailure", name, "", FALSE)
             ELSE /\ refs' = (name :> head_commit) @@ refs
                  /\ last' = Result("branch", 0, "", name, head_commit, FALSE, 0)
                  /\ UNCHANGED <<initialized, disk, HEAD, commits, index, orig>>

\* cmd_branch_delete without the check for the current branch
cmd_branch_delete_unchecked(name, unlink_fails) ==
    \/ NotARepository("branch_delete", name, "", FALSE)
    \/ /\ initialized
       /\ IF ~branch_exists(name)
          THEN Refuse("branch_delete", "BranchNotFound", name, "", FALSE)
          ELSE IF unlink_fails
          THEN Refuse("branch_delete", "IOFailure", name, "", FALSE)
          ELSE /\ refs' = Restrict(refs, DOMAIN refs \ {name})
               /\ last' = Result("branch_delete", 0, "", name, "", FALSE, 0)
               /\ UNCHANGED <<initialized, disk, HEAD, commits, index, orig>>

\* cmd_branch_delete(name); unlink_fails: branch_file.unlink raises OSError.
\* main.py passes the name only when it is not empty
cmd_branch_delete(name, unlink_fails) ==
    \/ NotARepository("branch_delete", name, "", FALSE)
    \/ /\ initialized
       /\ LET current_branch == get_current_branch
          IN IF ~branch_exists(name)
             THEN Refuse("branch_delete", "BranchNotFound", name, "", FALSE)
             ELSE IF name = current_branch
             THEN Refuse("branch_delete", "CannotDeleteCurrentBranch", name, "",
                         FALSE)
             ELSE IF unlink_fails
             THEN Refuse("branch_delete", "IOFailure", name, "", FALSE)
             ELSE /\ refs' = Restrict(refs, DOMAIN refs \ {name})
                  /\ last' = Result("branch_delete", 0, "", name, "", FALSE, 0)
                  /\ UNCHANGED <<initialized, disk, HEAD, commits, index, orig>>

\* the steps of cmd_branch_rename's try block at which an OSError may be raised
RenameFailures == {"none", "rename", "head"}

\* cmd_branch_rename(old_name, new_name); fail: the step that raises OSError.
\* Renaming refs/heads itself (old_name "") or into a directory that does not
\* exist (new_name with "/") raises OSError as well
cmd_branch_rename(old_name, new_name, fail) ==
    \/ NotARepository("branch_rename", old_name, new_name, FALSE)
    \/ /\ initialized
       /\ LET renamed == (new_name :> refs[old_name])
                             @@ Restrict(refs, DOMAIN refs \ {old_name})
              current_branch == get_current_branch
          IN IF ~branch_exists(old_name)
             THEN Refuse("branch_rename", "BranchNotFound", old_name, new_name,
                         FALSE)
             ELSE IF branch_exists(new_name)
             THEN Refuse("branch_rename", "BranchAlreadyExists", old_name,
                         new_name, FALSE)
             ELSE IF old_name = "" \/ Contains(new_name, "/") \/ fail = "rename"
             THEN Refuse("branch_rename", "IOFailure", old_name, new_name, FALSE)
             ELSE /\ fail = "head" => current_branch = old_name
                  /\ refs' = renamed
                  /\ HEAD' = IF current_branch = old_name /\ fail # "head"
                             THEN [ref |-> TRUE, val |-> new_name]
                             ELSE HEAD
                  /\ last' = IF fail = "head"
                             THEN Result("branch_rename", 1, "IOFailure", old_name,
                                         new_name, FALSE, 0)
                             ELSE Result("branch_rename", 0, "", old_name, new_name,
                                         FALSE, 0)
                  /\ UNCHANGED <<initialized, disk, commits, index, orig>>

(***************************************************************************)
(* The state machine: any command, with any arguments, after any other,    *)
(* and the user's edits in between.  A specification fixes the inputs the  *)
(* commands are given: the paths P the user edits and stages, the names N  *)
(* given as branches, the seconds T commits are stamped with, and whether  *)
(* file-system calls may fail (F = BOOLEAN) or never do (F = {FALSE}), and  *)
(* the number K of commit ids that may be created.                         *)
(***************************************************************************)
\* what checkout may be asked for: any name, any commit id ever made
Targets(N) == N \cup DOMAIN orig

Edits(P) ==
    \/ \E f \in P, c \in Contents : WriteFile(f, c)
    \/ \E f \in P : RemoveFile(f)

Staging(P, F) ==
    \/ \E f \in P, add_all \in BOOLEAN, write_fails \in F :
           cmd_add(f, add_all, write_fails)
    \/ \E f \in P : cmd_unstage(f)

\* a commit may be made while fewer than K commit ids were ever created, or
\* when it is given an id that was created before
Committing(T, F, K) ==
    \E m \in Messages, commit_all \in BOOLEAN, ts \in T,
       fail \in IF TRUE \in F THEN CommitFailures ELSE {"none"} :
        /\ (initialized /\ DOMAIN commit_staged(commit_all) # {})
               => \/ generate_commit_id(m, ts, get_head) \in DOMAIN orig
                  \/ Cardinality(DOMAIN orig) < K
        /\ cmd_commit(m, commit_all, ts, fail)

Switching(P, N, F) ==
    \/ \E target \in Targets(N), create_branch \in BOOLEAN, force \in BOOLEAN,
          unwritable \in IF TRUE \in F THEN SUBSET P ELSE {{}} :
           /\ create_branch => target \in N
           /\ cmd_checkout(target, create_branch, force, unwritable)
    \/ \E id \in DOMAIN orig, hard \in BOOLEAN, answer \in {"y", "n"},
          unwritable \in IF TRUE \in F THEN SUBSET P ELSE {{}} :
           cmd_revert(id, hard, answer, unwritable)
    \/ \E mode \in Modes : cmd_reset(mode)

Inspecting ==
    \E short \in BOOLEAN : cmd_status(short)

\* the limits given to history and graph; 0 is no limit
Limits == {0, 1}

Walking ==
    \/ \E limit \in Limits : cmd_history(limit)
    \/ \E limit \in Limits : cmd_graph(limit)

\* diff --cached, diff, diff commit1, diff commit1 commit2
Diffing ==
    \E commit1 \in DOMAIN orig \cup {None, Missing},
       commit2 \in DOMAIN orig \cup {None}, cached \in BOOLEAN :
        /\ cached => (commit1 = None /\ commit2 = None)
        /\ cmd_diff(commit1, commit2, cached)

Tampering ==
    \E commit_id \in DOMAIN commits,
       parent \in DOMAIN commits \cup {None, Missing} :
        TamperParent(commit_id, parent)

Branching(N, F) ==
    \/ \E name \in N, write_fails \in F : cmd_branch(name, write_fails)
    \/ \E name \in N \ {""}, unlink_fails \in F :
           cmd_branch_delete(name, unlink_fails)
    \/ \E old_name \in N, new_name \in N,
          fail \in IF TRUE \in F THEN RenameFailures ELSE {"none"} :
           cmd_branch_rename(old_name, new_name, fail)

InitOf(P) ==
    /\ Init
    /\ \A f \in Paths \ P : disk[f] = Absent

\* the command has returned and the shell shows its prompt again
AtPrompt == last.op = "none"

Return ==
    /\ ~AtPrompt
    /\ last' = Result("none", 0, "", "", "", FALSE, 0)
    /\ UNCHANGED <<initialized, disk, HEAD, refs, commits, index, orig,
                   ignore_file, procs>>

\* one command, or one edit of the user, at the prompt; of the commands only
\* cmd_init writes .wannabegitignore
Machine(P, N, T, F, K) ==
    \/ Return
    \/ AtPrompt /\ Edits(P) /\ UNCHANGED <<ignore_file, procs>>
    \/ AtPrompt /\ cmd_init /\ UNCHANGED procs
    \/ AtPrompt /\ Staging(P, F) /\ UNCHANGED <<ignore_file, procs>>
    \/ AtPrompt /\ Committing(T, F, K) /\ UNCHANGED <<ignore_file, procs>>
    \/ AtPrompt /\ Switching(P, N, F) /\ UNCHANGED <<ignore_file, procs>>
    \/ AtPrompt /\ Branching(N, F) /\ UNCHANGED <<ignore_file, procs>>
    \/ AtPrompt /\ Inspecting /\ UNCHANGED <<ignore_file, procs>>

\* the names of well-formed branches
BranchNames == {"main", "dev"}

\* Every command on one file and two branches, no file-system call failing.
Next == Machine({"a.txt"}, BranchNames, Timestamps, {FALSE}, MaxCommits)

Spec == InitOf({"a.txt"}) /\ [][Next]_vars

\* Every command on one file, with file-system calls that may fail.
NextIO == Machine({"a.txt"}, BranchNames, Timestamps, BOOLEAN, FewCommits)

SpecIO == InitOf({"a.txt"}) /\ [][NextIO]_vars

\* Every command on one file, with branch names of every shape.
NextNames == Machine({"a.txt"}, Names, Timestamps, {FALSE}, FewCommits)

SpecNames == InitOf({"a.txt"}) /\ [][NextNames]_vars

\* the paths the rules of the ignore files are about
IgnoredPaths == {"important.log", "build/keep.txt", "build/other.txt"}

\* init, add, unstage and status on the files the ignore rules are about and
\* their directory,
\* under every .wannabegitignore the user may write.
NextIgnore ==
    \/ Return
    \/ AtPrompt /\ \E file \in IgnoreFiles : WriteIgnoreFile(file)
    \/ AtPrompt /\ Edits(IgnoredPaths) /\ UNCHANGED <<ignore_file, procs>>
    \/ AtPrompt /\ cmd_init /\ UNCHANGED procs
    \/ AtPrompt /\ Staging(IgnoredPaths \cup Dirs, {FALSE})
                /\ UNCHANGED <<ignore_file, procs>>
    \/ AtPrompt /\ Inspecting /\ UNCHANGED <<ignore_file, procs>>

SpecIgnore == InitOf(IgnoredPaths) /\ [][NextIgnore]_vars

\* commits on one file, their parents rewritten in any way, and the walks
\* along the parents.
NextHistory ==
    \/ Return
    \/ AtPrompt /\ Edits({"a.txt"}) /\ UNCHANGED <<ignore_file, procs>>
    \/ AtPrompt /\ cmd_init /\ UNCHANGED procs
    \/ AtPrompt /\ Staging({"a.txt"}, {FALSE}) /\ UNCHANGED <<ignore_file, procs>>
    \/ AtPrompt /\ Committing(Timestamps, {FALSE}, ManyCommits)
                /\ UNCHANGED <<ignore_file, procs>>
    \/ AtPrompt /\ Tampering /\ UNCHANGED <<ignore_file, procs>>
    \/ AtPrompt /\ Walking /\ UNCHANGED <<ignore_file, procs>>

SpecHistory == InitOf({"a.txt"}) /\ [][NextHistory]_vars

\* a branch that exists and a name that is no branch
SomeNames == {"main", "nope"}

\* the commit ids given to revert that name no commit
NoCommitIds == {Missing, "."}

\* Every command on one file, with the names of branches and commits that do
\* not exist among its arguments.
NextErrors ==
    \/ Machine({"a.txt"}, SomeNames, Timestamps, {FALSE}, FewCommits)
    \/ /\ AtPrompt
       /\ \E id \in NoCommitIds, hard \in BOOLEAN : cmd_revert(id, hard, "y", {})
       /\ UNCHANGED <<ignore_file, procs>>
    \/ /\ AtPrompt
       /\ \E create_branch \in BOOLEAN : cmd_checkout(".", create_branch, FALSE, {})
       /\ UNCHANGED <<ignore_file, procs>>

SpecErrors == InitOf({"a.txt"}) /\ [][NextErrors]_vars

\* Every command on one file, with a branch name that ends with a space.
NextPadded == Machine({"a.txt"}, PaddedNames, Timestamps, {FALSE}, FewCommits)

SpecPadded == InitOf({"a.txt"}) /\ [][NextPadded]_vars

\* two files of the working tree
TwoPaths == {"a.txt", "b.txt"}

\* Every command on two files and one branch, with file-system calls that
\* may fail.
NextFiles == Machine(TwoPaths, {"main"}, Timestamps, BOOLEAN, FewCommits)

SpecFiles == InitOf(TwoPaths) /\ [][NextFiles]_vars

\* Two files and two commits: writes of the files, init, add of one file,
\* commit, status and a checkout that is not forced and creates no branch.
NextLost ==
    \/ Return
    \/ AtPrompt /\ (\E f \in TwoPaths, c \in Contents : WriteFile(f, c))
                /\ UNCHANGED <<ignore_file, procs>>
    \/ AtPrompt /\ cmd_init /\ UNCHANGED procs
    \/ AtPrompt /\ (\E f \in TwoPaths : cmd_add(f, FALSE, FALSE))
                /\ UNCHANGED <<ignore_file, procs>>
    \/ AtPrompt /\ Committing(Timestamps, {FALSE}, MaxCommits)
                /\ UNCHANGED <<ignore_file, procs>>
    \/ AtPrompt /\ Inspecting /\ UNCHANGED <<ignore_file, procs>>
    \/ AtPrompt /\ (\E target \in Targets({"main"}) :
                        cmd_checkout(target, FALSE, FALSE, {}))
                /\ UNCHANGED <<ignore_file, procs>>

SpecLost == InitOf(TwoPaths) /\ [][NextLost]_vars

\* init, edits, add and commit on two files, and every diff of the commits
\* and the working tree.
NextDiff ==
    \/ Return
    \/ AtPrompt /\ Edits(TwoPaths) /\ UNCHANGED <<ignore_file, procs>>
    \/ AtPrompt /\ cmd_init /\ UNCHANGED procs
    \/ AtPrompt /\ Staging(TwoPaths, {FALSE}) /\ UNCHANGED <<ignore_file, procs>>
    \/ AtPrompt /\ Committing(Timestamps, {FALSE}, MaxCommits)
                /\ UNCHANGED <<ignore_file, procs>>
    \/ AtPrompt /\ Diffing /\ UNCHANGED <<ignore_file, procs>>

SpecDiff == InitOf(TwoPaths) /\ [][NextDiff]_vars

(***************************************************************************)
(* cmd_add and cmd_commit statement by statement: each read or write of a  *)
(* file of the repository is a step of its own, and the steps of two       *)
(* invocations interleave freely, since no file is ever locked.            *)
(***************************************************************************)
\* meta.json of a commit directory that has none yet: read_json gives {}
NoMeta ==
    [id |-> None, message |-> "", timestamp |-> 0, parent |-> None,
     branch |-> "", files |-> {}]

\* the commit directory holds a meta.json
written(commit_id) ==
    commit_id \in DOMAIN commits /\ commits[commit_id].meta # NoMeta

\* cmd_add tracking and staging into the index as it is on disk when it writes
added_index_reloaded(loaded, files_to_add) ==
    LET added == add_staged(files_to_add)
        tracked == index.tracked_files \cup added
    IN [tracked_files |-> tracked,
        staged_files |-> [f \in added |-> stage_entry(f, tracked)]
                             @@ index.staged_files]

\* the index cmd_add writes: the index it loaded, with the files of
\* files_to_add that pass the loop tracked and staged
added_index(loaded, files_to_add) ==
    LET added == add_staged(files_to_add)
        tracked == loaded.tracked_files \cup added
    IN [tracked_files |-> tracked,
        staged_files |-> [f \in added |-> stage_entry(f, tracked)]
                             @@ loaded.staged_files]

\* cmd_add up to read_json(INDEX_FILE)
add_load(p, file_path) ==
    /\ initialized
    /\ procs[p].pc = "idle"
    /\ procs' = [procs EXCEPT ![p] = [Idle EXCEPT !.pc = "add_write",
                                                  !.op = "add",
                                                  !.arg = file_path,
                                                  !.index = index]]
    /\ UNCHANGED <<state, last, orig, ignore_file>>

\* cmd_add from the loop over files_to_add to write_json(INDEX_FILE)
add_write(p) ==
    /\ procs[p].pc = "add_write"
    /\ LET files_to_add == expand_file_patterns(procs[p].arg)
           errors == add_errors(files_to_add)
       IN /\ index' = added_index(procs[p].index, files_to_add)
          /\ procs' = [procs EXCEPT ![p].pc = "done",
                                    ![p].rc = IF errors # {} THEN 1 ELSE 0]
    /\ UNCHANGED <<initialized, disk, HEAD, refs, commits, last, orig,
                   ignore_file>>

\* the try block of cmd_commit writing meta.json only after set_head
commit_next_head_first(pc) ==
    CASE pc = "load" -> "snapshot"
      [] pc = "snapshot" -> "HEAD"
      [] pc = "HEAD" -> "ref"
      [] pc = "ref" -> "meta"
      [] pc = "meta" -> "index"
      [] pc = "index" -> "done"

\* the order of the writes of cmd_commit: the copy loop, write_json(meta.json),
\* set_head (the HEAD file, then the branch file), write_json(INDEX_FILE)
commit_next(pc) ==
    CASE pc = "load" -> "snapshot"
      [] pc = "snapshot" -> "meta"
      [] pc = "meta" -> "HEAD"
      [] pc = "HEAD" -> "ref"
      [] pc = "ref" -> "index"
      [] pc = "index" -> "done"

\* the commit ids given out: to the commits that wrote a directory, and to the
\* commits under way
ids_in_use ==
    DOMAIN orig \cup {procs[q].id : q \in {r \in Procs : procs[r].id # None}}

\* cmd_commit(message) up to generate_commit_id: the index, HEAD and the
\* current branch are read; K bounds the number of commit ids
commit_load(p, message, timestamp, K) ==
    /\ initialized
    /\ procs[p].pc = "idle"
    /\ LET staged_files == index.staged_files
           parent_commit == get_head
           current_branch == get_current_branch
           commit_id == generate_commit_id(message, timestamp, parent_commit)
       IN IF DOMAIN staged_files = {}
          THEN procs' = [procs EXCEPT ![p] = [Idle EXCEPT !.pc = "done",
                                                         !.op = "commit",
                                                         !.arg = message,
                                                         !.rc = 1]]
          ELSE /\ Cardinality(ids_in_use \cup {commit_id}) <= K
               /\ procs' = [procs EXCEPT ![p] =
                                [pc |-> commit_next("load"), op |-> "commit",
                                 arg |-> message, rc |-> 0, index |-> index,
                                 id |-> commit_id, timestamp |-> timestamp,
                                 parent |-> parent_commit,
                                 branch |-> current_branch, files |-> {}]]
    /\ UNCHANGED <<state, last, orig, ignore_file>>

\* the next write of the try block of cmd_commit; raises: the write raises
\* OSError and the except block removes the commit directory
commit_write(p, raises) ==
    LET inv == procs[p]
        files == IF inv.pc = "snapshot"
                 THEN files_committed(inv.index.staged_files)
                 ELSE inv.files
        dir == commit_dir(inv.id, inv.arg, inv.timestamp, inv.parent,
                          inv.branch, files)
    IN /\ inv.op = "commit"
       /\ inv.pc \in {"snapshot", "meta", "HEAD", "ref", "index"}
       /\ IF raises
          THEN /\ commits' = rmtree(inv.id)
               /\ procs' = [procs EXCEPT ![p].pc = "done", ![p].rc = 1]
               /\ UNCHANGED <<HEAD, refs, index>>
          ELSE /\ CASE inv.pc = "snapshot" ->
                         /\ commits' =
                               (inv.id :> [meta |-> IF inv.id \in DOMAIN commits
                                                    THEN commits[inv.id].meta
                                                    ELSE NoMeta,
                                           snap |-> dir.snap]) @@ commits
                         /\ UNCHANGED <<HEAD, refs, index>>
                    [] inv.pc = "meta" ->
                         /\ commits' = [commits EXCEPT ![inv.id].meta = dir.meta]
                         /\ UNCHANGED <<HEAD, refs, index>>
                    [] inv.pc = "HEAD" ->
                         /\ HEAD' = set_head_HEAD(inv.id, inv.branch)
                         /\ UNCHANGED <<refs, commits, index>>
                    [] inv.pc = "ref" ->
                         /\ refs' = set_head_refs(inv.id, inv.branch)
                         /\ UNCHANGED <<HEAD, commits, index>>
                    [] inv.pc = "index" ->
                         /\ index' = [inv.index EXCEPT !.staged_files = <<>>]
                         /\ UNCHANGED <<HEAD, refs, commits>>
               /\ procs' = [procs EXCEPT ![p].pc = commit_next(inv.pc),
                                         ![p].files = files]
       /\ orig' = IF inv.pc = "snapshot" THEN remember(inv.id, dir) ELSE orig
       /\ UNCHANGED <<initialized, disk, last, ignore_file>>

\* the invocation has returned; its process is gone
exit(p) ==
    /\ procs[p].pc = "done"
    /\ procs' = [procs EXCEPT ![p] = Idle]
    /\ UNCHANGED <<state, last, orig, ignore_file>>

\* init, and the invocations PS of add and commit on two files, their steps
\* interleaved in every way; at most K commit ids; F: whether a write of
\* cmd_commit may raise
Race(PS, K, F) ==
    \/ cmd_init /\ UNCHANGED procs
    \/ \E p \in PS, file_path \in TwoPaths : add_load(p, file_path)
    \/ \E p \in PS : add_write(p)
    \/ \E p \in PS, message \in Messages :
           commit_load(p, message, 0, K)
    \/ \E p \in PS, raises \in F : commit_write(p, raises)
    \/ \E p \in PS : exit(p)

\* invocations one after the other, a write of cmd_commit raising or not
NextSteps == Race({"p"}, ManyCommits, BOOLEAN)

SpecSteps == InitOf(TwoPaths) /\ [][NextSteps]_vars

\* two invocations at the same time
NextRace == Race(Procs, FewCommits, {FALSE})

SpecRace == InitOf(TwoPaths) /\ [][NextRace]_vars

(***************************************************************************)
(* Properties                                                              *)
(***************************************************************************)
\* a tracked file whose content differs from the snapshot of HEAD's commit
differs_from_head(f) ==
    /\ f \in index.tracked_files
    /\ disk[f] # Absent
    /\ get_head \in DOMAIN commits
    /\ commits[get_head].snap[f] # Absent
    /\ disk[f] # commits[get_head].snap[f]

\* C1: a successful checkout of a commit, with no file failing to restore,
\* leaves every file of the commit's files with the content it had when the
\* commit was made.
C1_RoundTrip ==
    [][(last'.op = "checkout" /\ last'.rc = 0 /\ last'.errors = 0)
         => \A f \in orig[last'.arg2].files :
                disk'[f] = orig[last'.arg2].snap[f]]_vars

\* C2: after a successful commit made while HEAD is attached to a branch B,
\* get_head is the new commit id, B points at that id, and HEAD is still
\* attached to B.
C2_HeadConsistency ==
    [][(last'.op = "commit" /\ last'.rc = 0 /\ HEAD.ref)
         => /\ get_head' = last'.arg2
            /\ HEAD' = HEAD
            /\ HEAD.val \in DOMAIN refs'
            /\ refs'[HEAD.val] = last'.arg2
            /\ last'.arg2 \in DOMAIN commits']_vars

C2_Witness ==
    /\ last.op = "commit"
    /\ last.rc = 0
    /\ HEAD.ref
    /\ refs[HEAD.val] = last.arg2
    /\ commits[last.arg2].meta.parent # None

\* C3: a commit once in the store is never removed, and its message, parent,
\* files and snapshotted contents never change.
C3_CommitImmutable ==
    [][\A id \in DOMAIN commits :
          /\ id \in DOMAIN commits'
          /\ commits'[id].meta.message = commits[id].meta.message
          /\ commits'[id].meta.parent = commits[id].meta.parent
          /\ commits'[id].meta.files = commits[id].meta.files
          /\ commits'[id].snap = commits[id].snap]_vars

\* C4: when a step of commit fails, no directory of the new commit is left,
\* HEAD and every branch pointer are as before, and so is the staging area.
C4_CommitAtomic ==
    [][(last'.op = "commit" /\ last'.err = "IOFailure")
         => /\ last'.arg2 \notin DOMAIN commits'
            /\ HEAD' = HEAD
            /\ refs' = refs
            /\ index' = index
            /\ get_head' # last'.arg2]_vars

\* C5: a checkout without force, made while a tracked file differs from
\* HEAD's snapshot or is missing or the staging area is not empty, fails and
\* changes nothing.
C5_CheckoutRefused ==
    [][(/\ last'.op = "checkout"
        /\ ~last'.flag
        /\ initialized
        /\ get_head # None
        /\ \/ DOMAIN index.staged_files # {}
           \/ \E f \in index.tracked_files : disk[f] = Absent
           \/ \E f \in Paths : differs_from_head(f))
         => /\ last'.rc # 0
            /\ UNCHANGED state]_vars

\* C6: a revert with hard = False that is carried out leaves every file
\* that differed from HEAD's snapshot with the content it had.
C6_SoftRevertKeeps ==
    [][(last'.op = "revert" /\ last'.rc = 0 /\ last'.err = "" /\ ~last'.flag)
         => \A f \in Paths : differs_from_head(f) => disk'[f] = disk[f]]_vars

C8_BranchNamesWellFormed ==
    \A b \in list_branches :
        /\ b # ""
        /\ ~Contains(b, "/")
        /\ \A ws \in Whitespace : ~Contains(b, ws)

\* C9: cmd_branch, when HEAD resolves to a commit, fails with
\* InvalidBranchName for a name that is empty or contains '/' or whitespace,
\* and with BranchAlreadyExists for the name of a branch; a failed cmd_branch
\* changes no pointer and not HEAD; a successful one adds a pointer to HEAD's
\* commit and changes no other pointer and not HEAD.
C9_CreateBranch ==
    [][(last'.op = "branch" /\ initialized)
         => LET name == last'.arg
                invalid == \/ name = ""
                           \/ Contains(name, "/")
                           \/ \E ws \in Whitespace : Contains(name, ws)
            IN /\ (invalid /\ get_head # None)
                    => last'.err = "InvalidBranchName"
               /\ (~invalid /\ name \in list_branches /\ get_head # None)
                    => last'.err = "BranchAlreadyExists"
               /\ last'.rc # 0 => (refs' = refs /\ HEAD' = HEAD)
               /\ last'.rc = 0
                    => /\ name \notin DOMAIN refs
                       /\ refs' = (name :> get_head) @@ refs
                       /\ get_head \in DOMAIN commits
                       /\ HEAD' = HEAD]_vars

\* C10: in no state has cmd_branch_rename renamed the branch file of the
\* current branch while HEAD still names the old branch.
C10_RenameAtomic ==
    ~ /\ last.op = "branch_rename"
      /\ last.arg2 \in DOMAIN refs
      /\ last.arg \notin DOMAIN refs
      /\ HEAD.ref
      /\ HEAD.val = last.arg

\* C13: in what status reports, a tracked file that is on disk and in
\* staged_files is in staged_changes, and it is in unstaged_changes as well
\* exactly when the hash of its content differs from the hash recorded when
\* it was staged.
C13_StagedFileStatus ==
    (last.op = "status" /\ last.rc = 0)
        => \A f \in index.tracked_files \cap DOMAIN index.staged_files :
               disk[f] # Absent
                   => /\ f \in staged_changes
                      /\ f \in unstaged_changes
                             <=> get_file_hash(f) # index.staged_files[f].hash

\* status run on a staged file that was edited after it was staged
C13_Witness ==
    /\ last.op = "status" /\ last.rc = 0
    /\ "a.txt" \in index.tracked_files \cap DOMAIN index.staged_files
    /\ disk["a.txt"] # Absent
    /\ get_file_hash("a.txt") # index.staged_files["a.txt"].hash
    /\ "a.txt" \in staged_changes \cap unstaged_changes

\* C14: in what status reports, a tracked file that is on disk, not staged,
\* and part of HEAD's commit is in unstaged_changes (and not in staged_changes)
\* when its content differs from HEAD's snapshot of it, and is in none of the
\* four lists when its content equals the snapshot; with nothing staged,
\* staged_changes is empty.
C14_UnstagedFileStatus ==
    (last.op = "status" /\ last.rc = 0)
        => /\ DOMAIN index.staged_files = {} => staged_changes = {}
           /\ \A f \in index.tracked_files \ DOMAIN index.staged_files :
                  (/\ disk[f] # Absent
                   /\ get_head \in DOMAIN commits
                   /\ commits[get_head].snap[f] # Absent)
                      => IF disk[f] # commits[get_head].snap[f]
                         THEN f \in unstaged_changes \ staged_changes
                         ELSE f \notin staged_changes \cup unstaged_changes
                                         \cup deleted_files \cup untracked_files

\* status run after add, commit and an edit of the committed file
C14_Witness ==
    /\ last.op = "status" /\ last.rc = 0
    /\ differs_from_head("a.txt")
    /\ DOMAIN index.staged_files = {}
    /\ unstaged_changes = {"a.txt"}
    /\ staged_changes = {}

\* C16: in what status reports, every tracked path that is missing from disk
\* is in one of the lists: none is left out.
C16_DeletedReported ==
    (last.op = "status" /\ last.rc = 0)
        => \A f \in index.tracked_files :
               disk[f] = Absent
                   => f \in deleted_files \cup staged_changes \cup unstaged_changes

\* C17: a hard revert to an existing commit leaves every file of the commit's
\* files with the content of the commit's snapshot, leaves staged_files empty,
\* and makes get_head the commit.
C17_HardRevert ==
    [][(/\ last'.op = "revert" /\ last'.flag
        /\ initialized /\ last'.arg \in DOMAIN commits)
         => /\ last'.rc = 0
            /\ \A f \in commits[last'.arg].meta.files :
                   disk'[f] = commits[last'.arg].snap[f]
            /\ DOMAIN index'.staged_files = {}
            /\ get_head' = last'.arg]_vars

\* a hard revert to a commit whose file differs from another commit's
C17_Witness ==
    /\ last.op = "revert" /\ last.flag /\ last.rc = 0
    /\ last.arg \in DOMAIN commits
    /\ "a.txt" \in commits[last.arg].meta.files
    /\ disk["a.txt"] = commits[last.arg].snap["a.txt"]
    /\ \E id \in DOMAIN commits :
           id # last.arg /\ commits[id].snap["a.txt"] # disk["a.txt"]
    /\ get_head = last.arg

\* C19: a successful commit leaves staged_files empty and tracked_files what
\* it was before the commit.
C19_CommitIndex ==
    [][(last'.op = "commit" /\ last'.rc = 0)
         => /\ DOMAIN index'.staged_files = {}
            /\ index'.tracked_files = index.tracked_files]_vars

\* a successful commit of a staged file
C19_Witness ==
    /\ last.op = "commit" /\ last.rc = 0
    /\ index.tracked_files = {"a.txt"}
    /\ DOMAIN index.staged_files = {}
    /\ last.arg2 \in DOMAIN commits

\* C20: a commit with nothing staged, and a commit_all with nothing staged
\* and no tracked file on disk, fails with NothingToCommit and changes neither
\* the commits, nor HEAD, nor a branch, nor the index.
C20_NothingToCommit ==
    [][(/\ last'.op = "commit"
        /\ initialized
        /\ DOMAIN index.staged_files = {}
        /\ last'.flag => \A f \in index.tracked_files : disk[f] = Absent)
         => /\ last'.rc = 1
            /\ last'.err = "NothingToCommit"
            /\ UNCHANGED <<commits, HEAD, refs, index>>]_vars

\* commit_all refused: a file is tracked, but it is not on disk
C20_Witness ==
    /\ last.op = "commit" /\ last.err = "NothingToCommit" /\ last.flag
    /\ index.tracked_files # {}
\* a sequence in which no element occurs twice
NoDuplicates(chain) ==
    \A i, j \in 1..Len(chain) : chain[i] = chain[j] => i = j

\* the walks along the parents: get_commit_tree and get_commit_chain from
\* every commit id and from a missing one, cmd_history from HEAD
Walks ==
    {get_commit_tree(id) : id \in DOMAIN commits \cup {Missing}}
        \cup {get_commit_chain(id, build_commit_graph) :
                 id \in DOMAIN commits \cup {Missing}}
        \cup {history_commits(limit) : limit \in Limits}

\* C18: whatever the parents stored in the commits are, a cycle or a missing
\* commit included, every walk along them ends, and its chain holds no commit
\* id twice and no more ids than there are stored commits.
C18_WalksTerminate ==
    \A walk \in Walks :
        /\ walk.done
        /\ NoDuplicates(walk.chain)
        /\ Len(walk.chain) <= Cardinality(DOMAIN commits)

\* history run while HEAD's commit and its parent are each other's parent
C18_Witness ==
    /\ last.op = "history" /\ last.rc = 0
    /\ get_head \in DOMAIN commits
    /\ LET parent == commits[get_head].meta.parent
       IN /\ parent \in DOMAIN commits \ {get_head}
          /\ commits[parent].meta.parent = get_head
          /\ get_commit_tree(get_head).chain = <<get_head, parent>>
          /\ history_commits(0).chain = <<get_head, parent>>
\* the rules of the examples
LogRules == IgnoreFile(<<"*.log", "!important.log">>)
BuildRules == IgnoreFile(<<"build/", "!build/keep.txt">>)

\* the non-negation flag of the last of the rules that matches the path,
\* FALSE when none matches
last_match(patterns, path, is_dir) ==
    LET matching == {i \in DOMAIN patterns : matches(patterns[i], path, is_dir)}
    IN /\ matching # {}
       /\ \E i \in matching :
             /\ \A j \in matching : j <= i
             /\ ~patterns[i].negation

\* last_match under each .wannabegitignore, for each path, as a file and as a
\* directory
LastMatchVerdict ==
    [file \in IgnoreFiles \cup {NoIgnoreFile} |->
        [path \in IgnorePaths |-> [is_dir \in BOOLEAN |->
            last_match(load_patterns(file), Chars(path), is_dir)]]]

\* C11: under every .wannabegitignore, is_ignored of a path is the
\* non-negation flag of the last of the default and user rules that matches
\* it, FALSE when none does: under "*.log", "!important.log", important.log is
\* not ignored and debug.log is; keep.pyc, ignored by the default "*.pyc", is
\* not ignored under the user rule "!*.pyc".
C11_LastMatchWins ==
    /\ \A path \in IgnorePaths :
           is_ignored(path) = LastMatchVerdict[ignore_file][path][isdir(path)]
    /\ ignore_file = LogRules
           => ~is_ignored("important.log") /\ is_ignored("debug.log")
    /\ ignore_file = NoIgnoreFile => is_ignored("keep.pyc")
    /\ ignore_file = IgnoreFile(<<"!*.pyc">>) => ~is_ignored("keep.pyc")

\* important.log added, and staged, under "*.log", "!important.log"
C11_Witness ==
    /\ ignore_file = LogRules
    /\ last.op = "add" /\ last.rc = 0 /\ last.arg = "important.log"
    /\ "important.log" \in DOMAIN index.staged_files

\* C12: under "build/", "!build/keep.txt", build/other.txt is ignored and
\* build/keep.txt is not: add of build/other.txt stages nothing, and status
\* lists build/keep.txt as untracked when it is on disk and not tracked, and
\* does not list build/other.txt.
C12_DirectoryRule ==
    [][(ignore_file = BuildRules /\ initialized)
         => /\ (last'.op = "add" /\ ~last'.flag /\ last'.arg = "build/other.txt")
                   => /\ is_ignored("build/other.txt")
                      /\ ~is_ignored("build/keep.txt")
                      /\ index' = index
            /\ last'.op = "status"
                   => /\ "build/other.txt" \notin untracked_files
                      /\ (/\ disk["build/keep.txt"] # Absent
                          /\ "build/keep.txt" \notin index.tracked_files)
                             => "build/keep.txt" \in untracked_files]_vars

\* C15: what status reports as untracked is exactly the files on disk that
\* are not in tracked_files and that is_ignored does not hold of.
C15_UntrackedExact ==
    (last.op = "status" /\ last.rc = 0)
        => untracked_files
               = {f \in Paths : /\ disk[f] # Absent
                                /\ f \notin index.tracked_files
                                /\ ~is_ignored(f)}
\* C21: a checkout of a target that is neither a branch nor a commit, a
\* checkout that is to create a branch that exists, a revert to a commit that
\* does not exist, a rename or delete of a branch that does not exist, and
\* every command but init where there is no repository, fail, and leave the
\* repository and the working tree as they were.
C21_StructuralErrors ==
    [][(\/ ~initialized /\ last'.op \notin {"none", "edit", "init"}
        \/ /\ last'.op = "checkout" /\ ~last'.create
           /\ last'.arg \notin DOMAIN refs \cup DOMAIN commits
        \/ last'.op = "checkout" /\ last'.create /\ last'.arg \in DOMAIN refs
        \/ last'.op = "revert" /\ last'.arg \notin DOMAIN commits
        \/ /\ last'.op \in {"branch_delete", "branch_rename"}
           /\ last'.arg \notin DOMAIN refs)
         => /\ last'.rc = 1
            /\ UNCHANGED state]_vars
\* C23: unstage of a staged path removes that path from staged_files and
\* changes nothing else: tracked_files, the other staged entries, HEAD, the
\* branches, the commits and the working tree stay; unstage of a path that is
\* not staged fails with NotStaged and changes nothing.
C23_UnstageFrame ==
    [][(last'.op = "unstage" /\ initialized)
         => IF last'.arg \in DOMAIN index.staged_files
            THEN /\ last'.rc = 0
                 /\ index'.staged_files
                        = Restrict(index.staged_files,
                                   DOMAIN index.staged_files \ {last'.arg})
                 /\ index'.tracked_files = index.tracked_files
                 /\ UNCHANGED <<disk, HEAD, refs, commits>>
            ELSE /\ last'.rc = 1
                 /\ last'.err = "NotStaged"
                 /\ UNCHANGED state]_vars

\* a file unstaged while another file stays staged
C23_Witness ==
    /\ last.op = "unstage" /\ last.rc = 0
    /\ last.arg \in index.tracked_files \ DOMAIN index.staged_files
    /\ DOMAIN index.staged_files # {}
\* C24: add of a path that is a regular file on disk and is not ignored leaves
\* the path in tracked_files and in staged_files with the hash of its content
\* (replacing the hash it was staged with), and changes no index that already
\* holds that; add of a path that is missing, ignored or a directory adds
\* nothing to tracked_files or staged_files.
C24_Stage ==
    [][(last'.op = "add" /\ ~last'.flag /\ initialized)
         => IF /\ last'.arg \in Paths
               /\ disk[last'.arg] # Absent
               /\ ~is_ignored(last'.arg)
            THEN /\ last'.arg \in index'.tracked_files
                 /\ last'.arg \in DOMAIN index'.staged_files
                 /\ index'.staged_files[last'.arg].hash = get_file_hash(last'.arg)
                 /\ (/\ last'.arg \in index.tracked_files
                     /\ last'.arg \in DOMAIN index.staged_files
                     /\ index.staged_files[last'.arg].hash
                            = get_file_hash(last'.arg))
                        => index' = index
            ELSE /\ index'.tracked_files = index.tracked_files
                 /\ index'.staged_files = index.staged_files]_vars

\* C25: after add with add_all, every tracked file that is on disk is in
\* staged_files with the hash of its content, no tracked file that is not on
\* disk is newly staged, and tracked_files is what it was.
C25_StageAll ==
    [][(last'.op = "add" /\ last'.flag /\ initialized)
         => /\ \A f \in index.tracked_files :
                   IF disk[f] # Absent
                   THEN /\ f \in DOMAIN index'.staged_files
                        /\ index'.staged_files[f].hash = get_file_hash(f)
                   ELSE f \in DOMAIN index'.staged_files
                            => /\ f \in DOMAIN index.staged_files
                               /\ index'.staged_files[f] = index.staged_files[f]
            /\ index'.tracked_files = index.tracked_files]_vars
\* C28: a successful commit made while HEAD is attached to a branch writes
\* that branch's pointer and no other branch's; one made while HEAD is
\* detached makes HEAD the new commit, detached still, and writes no branch.
C28_CommitMovesCurrent ==
    [][(last'.op = "commit" /\ last'.rc = 0)
         => IF HEAD.ref
            THEN /\ DOMAIN refs' = DOMAIN refs \cup {HEAD.val}
                 /\ refs'[HEAD.val] = last'.arg2
                 /\ \A b \in DOMAIN refs \ {HEAD.val} : refs'[b] = refs[b]
            ELSE /\ HEAD' = [ref |-> FALSE, val |-> last'.arg2]
                 /\ refs' = refs]_vars

\* a commit on one branch while another branch points at another commit
C28_Witness ==
    /\ last.op = "commit" /\ last.rc = 0
    /\ HEAD.ref
    /\ refs[HEAD.val] = last.arg2
    /\ \E b \in DOMAIN refs \ {HEAD.val} : refs[b] \notin {None, last.arg2}

\* C29: the parent a successful commit records is the commit HEAD resolved to
\* before it (none for the first), the branch it records is the branch HEAD
\* was attached to or "detached", and the chain of the new commit is the new
\* commit followed by the chain of the commit HEAD resolved to before.
C29_ParentLinkage ==
    [][(last'.op = "commit" /\ last'.rc = 0)
         => /\ commits'[last'.arg2].meta.parent = get_head
            /\ commits'[last'.arg2].meta.branch
                   = IF HEAD.ref THEN HEAD.val ELSE "detached"
            /\ get_head' = last'.arg2
            /\ get_commit_tree(get_head).done'
            /\ get_commit_tree(get_head).chain'
                   = <<last'.arg2>> \o get_commit_tree(get_head).chain]_vars

\* a commit made with detached HEAD on top of another commit
C29_Witness ==
    /\ last.op = "commit" /\ last.rc = 0
    /\ ~HEAD.ref
    /\ commits[last.arg2].meta.branch = "detached"
    /\ commits[last.arg2].meta.parent \in DOMAIN commits
    /\ Len(get_commit_tree(last.arg2).chain) = 2
\* C22: a commit in which the copy of one of several staged files fails is
\* still made, of the other files; a checkout or a revert in which the copy
\* of some files fails still returns 0, has restored every other file of the
\* commit, and counts the files it failed on.
C22_PerFileErrors ==
    [][/\ (/\ last'.op = "commit" /\ last'.err = "IOFailure"
           /\ last'.errors > 0
           /\ Cardinality(files_committed(commit_staged(last'.flag))) >= 2)
            => /\ last'.arg2 \in DOMAIN commits'
               /\ commits'[last'.arg2].meta.files # {}
               /\ get_head' = last'.arg2
       /\ \A c \in DOMAIN commits :
              (\/ last'.op = "checkout" /\ last'.rc = 0 /\ last'.arg2 = c
               \/ last'.op = "revert" /\ last'.rc = 0 /\ last'.err = ""
                      /\ last'.arg = c)
                  => /\ \A f \in restorable(c) :
                            disk'[f] \in {commits[c].snap[f], disk[f]}
                     /\ Cardinality({f \in restorable(c) :
                                        disk'[f] # commits[c].snap[f]})
                            <= last'.errors]_vars

\* C30: the files and the snapshot of every commit that is made hold every
\* tracked file that is on disk when it is made, staged or not.
C30_FullTreeSnapshot ==
    [][(last'.op = "commit" /\ last'.rc = 0)
         => \A f \in index.tracked_files :
                disk[f] # Absent
                    => /\ f \in commits'[last'.arg2].meta.files
                       /\ commits'[last'.arg2].snap[f] = disk[f]]_vars

\* C26: nothing serialises two invocations. An add writes the index it loaded
\* with its own files added, whatever was written to the index since then: a
\* path that another add tracked and staged in between is in neither
\* tracked_files nor staged_files afterwards, though both adds succeed. The
\* index write of a commit is the index the commit loaded with staged_files
\* cleared: a file staged in between is staged no longer and is not among the
\* files of the commit.
C26_LostUpdate ==
    [][\A p \in Procs :
          /\ (procs[p].pc = "add_write" /\ procs'[p].pc = "done") =>
                \A f \in index.tracked_files \
                            (procs[p].index.tracked_files
                                 \cup expand_file_patterns(procs[p].arg)) :
                    /\ f \notin index'.tracked_files
                    /\ f \notin DOMAIN index'.staged_files
          /\ (procs[p].op = "commit" /\ procs[p].pc = "index"
                  /\ procs'[p].pc = "done") =>
                \A f \in DOMAIN index.staged_files \
                            DOMAIN procs[p].index.staged_files :
                    /\ f \notin DOMAIN index'.staged_files
                    /\ f \notin procs[p].files]_vars

\* two adds of two files that exist have both returned 0, and one of the two
\* files is neither tracked nor staged
C26_Witness ==
    /\ \A p \in Procs : /\ procs[p].pc = "done"
                         /\ procs[p].op = "add"
                         /\ procs[p].rc = 0
                         /\ procs[p].arg \in Paths
                         /\ disk[procs[p].arg] # Absent
    /\ procs["p"].arg # procs["q"].arg
    /\ procs["p"].index = procs["q"].index
    /\ \E p \in Procs : /\ procs[p].arg \notin index.tracked_files
                         /\ procs[p].arg \notin DOMAIN index.staged_files

\* C27: cmd_commit writes in one order: the snapshots and meta.json of the
\* commit are complete before HEAD or a branch file is written, and
\* staged_files is cleared only when HEAD resolves to the commit. At no moment
\* of a commit does HEAD or a branch file hold its id while its meta.json is not
\* written yet.
C27_WriteOrdering ==
    /\ [](\A p \in Procs :
             (procs[p].op = "commit" /\ procs[p].pc # "done"
                 /\ ~written(procs[p].id)) =>
                /\ \A b \in DOMAIN refs : refs[b] # procs[p].id
                /\ HEAD.val # procs[p].id)
    /\ [][\A p \in Procs :
             procs'[p] # procs[p] /\ procs[p].op = "commit" =>
                /\ (HEAD' # HEAD \/ refs' # refs) =>
                      /\ written(procs[p].id)
                      /\ commits[procs[p].id].meta.files = procs[p].files
                      /\ \A f \in procs[p].files :
                             commits[procs[p].id].snap[f] = disk[f]
                /\ index' # index =>
                      /\ get_head = procs[p].id
                      /\ index'.staged_files = <<>>]_vars

\* a commit under way: its snapshots and meta.json are written, HEAD does not
\* resolve to it yet and the staging area is still full
C27_Witness ==
    \E p \in Procs :
        /\ procs[p].op = "commit"
        /\ procs[p].pc \in {"HEAD", "ref"}
        /\ written(procs[p].id)
        /\ commits[procs[p].id].meta.files = procs[p].files
        /\ procs[p].files # {}
        /\ get_head # procs[p].id
        /\ index.staged_files # <<>>

\* C31: a successful commit copies the content each committed file has when the
\* commit is made, whatever it was when the file was staged; right after the
\* commit, status would list none of the committed files among the staged
\* changes or among the unstaged changes.
C31_SnapshotAtCommit ==
    [][(last'.op = "commit" /\ last'.rc = 0)
         => \A f \in commits'[last'.arg2].meta.files :
                /\ commits'[last'.arg2].snap[f] = disk[f]
                /\ f \notin staged_changes'
                /\ f \notin unstaged_changes']_vars

\* a successful commit of a tracked file: its copy is the content on disk, and
\* the file is in none of the lists of status
C31_Witness ==
    /\ last.op = "commit" /\ last.rc = 0
    /\ last.arg2 \in DOMAIN commits
    /\ "a.txt" \in commits[last.arg2].meta.files
    /\ "a.txt" \in index.tracked_files
    /\ commits[last.arg2].snap["a.txt"] = disk["a.txt"]
    /\ tracked_status["a.txt"] = "unchanged"

C33_RevertMovesPointers ==
    [][(last'.op = "revert" /\ last'.rc = 0 /\ last'.err = "")
         => /\ IF HEAD.ref
               THEN /\ HEAD' = HEAD
                    /\ DOMAIN refs' = DOMAIN refs \cup {HEAD.val}
                    /\ refs'[HEAD.val] = last'.arg
                    /\ \A b \in DOMAIN refs \ {HEAD.val} : refs'[b] = refs[b]
               ELSE /\ HEAD' = [ref |-> FALSE, val |-> last'.arg]
                    /\ refs' = refs
            /\ get_head' = last'.arg
            /\ commits' = commits]_vars

\* a revert, on a branch, to a commit that has a child: the child is still
\* in the store
C33_Witness ==
    /\ last.op = "revert" /\ last.rc = 0 /\ last.err = ""
    /\ HEAD.ref
    /\ HEAD.val \in DOMAIN refs
    /\ refs[HEAD.val] = last.arg
    /\ last.arg \in DOMAIN commits
    /\ \E id \in DOMAIN commits : commits[id].meta.parent = last.arg

\* C34: reset moves no reference and touches no commit, whatever the mode. With
\* no HEAD commit, or with a mode that is none of soft, mixed and hard, it
\* fails and changes nothing. Otherwise soft changes nothing; mixed empties
\* staged_files and leaves tracked_files and the working tree alone; hard
\* gives every file of HEAD's commit the content of its copy, empties
\* staged_files and makes tracked_files the files of HEAD's commit.
C34_Reset ==
    [][(last'.op = "reset" /\ initialized)
         => /\ UNCHANGED <<HEAD, refs, commits>>
            /\ IF get_head = None \/ last'.arg \notin {"soft", "mixed", "hard"}
               THEN last'.rc = 1 /\ UNCHANGED state
               ELSE /\ last'.rc = 0
                    /\ last'.arg = "soft" => UNCHANGED state
                    /\ last'.arg = "mixed" =>
                          /\ index'.staged_files = <<>>
                          /\ index'.tracked_files = index.tracked_files
                          /\ disk' = disk
                    /\ last'.arg = "hard" =>
                          /\ get_head \in DOMAIN commits
                          /\ \A f \in commits[get_head].meta.files :
                                 disk'[f] = commits[get_head].snap[f]
                          /\ index'.staged_files = <<>>
                          /\ index'.tracked_files
                                 = commits[get_head].meta.files]_vars

\* a soft reset with a file staged: the file is still staged
C34_Witness ==
    /\ last.op = "reset" /\ last.rc = 0 /\ last.arg = "soft"
    /\ get_head \in DOMAIN commits
    /\ "a.txt" \in DOMAIN index.staged_files

\* C35: a diff reports every path that is on either of its two sides. Between
\* a commit and the working tree: a tracked file that is on disk and not among
\* the commit's files is shown as added, a file of the commit that is not on
\* disk as deleted. Between two commits: a file of the second only is shown as
\* added, a file of the first only as deleted.
C35_DiffUnion ==
    (last.op = "diff" /\ last.rc = 0 /\ ~last.flag)
        => LET base == diff_base(last.arg, last.arg2, last.flag)
               shown == diff_shown(last.arg, last.arg2, last.flag)
           IN /\ base # None =>
                    /\ \A f \in index.tracked_files \ commit_files(base) :
                           disk[f] # Absent
                               => [file |-> f, kind |-> "added"] \in shown
                    /\ \A f \in commit_files(base) :
                           disk[f] = Absent
                               => [file |-> f, kind |-> "deleted"] \in shown
              /\ (last.arg # None /\ last.arg2 # None) =>
                    /\ \A f \in commit_files(last.arg2) \ commit_files(last.arg) :
                           [file |-> f, kind |-> "added"] \in shown
                    /\ \A f \in commit_files(last.arg) \ commit_files(last.arg2) :
                           [file |-> f, kind |-> "deleted"] \in shown

\* C36: every path of staged_files is in tracked_files, whatever add, unstage,
\* commit, checkout, revert and reset commands were run.
C36_StagedTracked ==
    DOMAIN index.staged_files \subseteq index.tracked_files

\* C37: whenever HEAD is a symbolic reference, the branch it names is one of
\* the branches list_branches gives, whatever commands were run to completion
\* since init.
C37_AttachedHeadExists ==
    (initialized /\ HEAD.ref) => get_current_branch \in list_branches

\* C38: the commit HEAD resolves to, the commit every branch points at and the
\* parent of every commit are commits of the store; a branch has an empty
\* pointer only while it is the one branch of a repository without commits.
C38_ReferentialIntegrity ==
    initialized =>
        /\ get_head # None => get_head \in DOMAIN commits
        /\ \A b \in DOMAIN refs :
               IF refs[b] = None
               THEN commits = <<>> /\ DOMAIN refs = {b}
               ELSE refs[b] \in DOMAIN commits
        /\ \A id \in DOMAIN commits :
               commits[id].meta.parent # None
                   => commits[id].meta.parent \in DOMAIN commits

\* the version last committed for a path: its copy in the nearest commit, from
\* HEAD along the parents, that holds one
last_committed(file) ==
    LET chain == history_commits(0).chain
        holders == {i \in DOMAIN chain : in_commit(chain[i], file)}
    IN IF holders = {} THEN Absent
       ELSE commits[chain[CHOOSE i \in holders :
                              \A j \in holders : i <= j]].snap[file]

\* the tracked, unstaged files on disk that differ from their last committed
\* version
modified_since_commit ==
    {f \in index.tracked_files \ DOMAIN index.staged_files :
        /\ disk[f] # Absent
        /\ last_committed(f) # Absent
        /\ disk[f] # last_committed(f)}

\* C39: a tracked, unstaged file on disk that differs from the version last
\* committed for its path is listed by status among the unstaged changes, and
\* a checkout that is not forced is refused while there is one, whether or not
\* the commit of HEAD lists the path.
C39_NoLostModification ==
    [][/\ (last'.op = "status" /\ last'.rc = 0)
            => modified_since_commit \subseteq unstaged_changes
       /\ (last'.op = "checkout" /\ ~last'.flag /\ initialized
              /\ modified_since_commit # {})
            => (last'.rc = 1 /\ last'.err = "UncommittedChangesPresent")]_vars

\* C40: a successful commit records as files exactly the staged paths that are
\* on disk when it is made; a staged path that was removed from disk is left
\* out without an error, and the commit succeeds and moves HEAD to the new
\* commit also when no staged path is on disk, its list of files then empty.
C40_FilesOnDisk ==
    [][(last'.op = "commit" /\ last'.rc = 0)
         => LET staged == DOMAIN commit_staged(last'.flag)
            IN /\ staged # {}
               /\ last'.arg2 \in DOMAIN commits'
               /\ commits'[last'.arg2].meta.files
                      = {f \in staged : disk[f] # Absent}
               /\ get_head' = last'.arg2]_vars

\* a successful commit whose only staged path is gone from disk: its list of
\* files is empty and HEAD resolves to it
C40_Witness ==
    /\ last.op = "commit" /\ last.rc = 0
    /\ last.arg2 \in DOMAIN commits
    /\ commits[last.arg2].meta.files = {}
    /\ disk["a.txt"] = Absent
    /\ get_head = last.arg2

====
